---- MODULE Spec2Model ----
(***************************************************************************)
(* A model of gcr-cleaner: the ordered worker pool (internal/worker) and   *)
(* the cleaning engine Cleaner.Clean (pkg/gcrcleaner) that runs on it.     *)
(*                                                                         *)
(* Goroutines are modelled by program counters.  Every atomic operation of *)
(* the code (an atomic load/add/CAS, a semaphore operation, a critical     *)
(* section of a mutex) is one step.                                        *)
(***************************************************************************)
EXTENDS Integers, Sequences, FiniteSets, TLC

(***************************************************************************)
(* Bounds of the model.                                                    *)
(***************************************************************************)
MaxConcurrency == 2   \* the pool's concurrency N ranges over 1..MaxConcurrency
MaxCallers == 2       \* goroutines calling Do/Wait/Done concurrently
MaxCalls == 3         \* calls they make in all
MaxManifests == 2     \* manifests of the repository
MaxTags == 2          \* tags of the repository
MaxTime == 2          \* times (created, uploaded, since) are points of 0..MaxTime
MaxMessages == 2      \* distinct keys of the cache (subscription/message_id)
MaxKeep == 2          \* keep ranges over 0..MaxKeep

VARIABLES
  size,        \* Worker.size
  sem,         \* Worker.sem: [cur |-> units held, waiters |-> FIFO of [who, n]]
  i,           \* Worker.i, the last index handed out
  results,     \* Worker.results, in order of completion
  stopped,     \* Worker.stopped
  tasks,       \* the goroutines started by Do, by index
  call,        \* per caller: the call to Do/Wait/Done it is in, or its last one
  ncalls,      \* calls begun so far
  doRet,       \* history: what each Do call returned, by work function
  args,        \* Cleaner.Clean: its arguments ctx, since, keep, tagFilter, dryRun;
               \* listing, the tags.Manifests the registry answers with; and
               \* registry, whether the registry can fail a request
  cl,          \* Cleaner.Clean: its local variables, pc (where it is) and ret
               \* (what it returned)
  sent,        \* the registry: the deletions c.deleteOne has sent to it, as the
               \* work functions that sent them
  cache,       \* timerCache.data, the keys it holds
  expired,     \* history: the keys a timeout has removed from the cache
  reqs,        \* Server: the requests received, each with the position of its
               \* handler and the status it answered
  jobs,        \* Server.clean: its runs, by the request that started them
  timers,      \* timerCache: per key, the timeout goroutines that have not ended
  stopCh       \* timerCache.stopCh and stopped: "open" or "closed"

\* the timeout goroutines of the timerCache and its stop channel
tvars == <<timers, stopCh>>

svars == <<cache, expired, reqs, jobs, tvars>>

cvars == <<args, cl, sent, svars>>

pool == <<size, sem, i, results, stopped, tasks, call, doRet>>

vars == <<size, sem, i, results, stopped, tasks, call, ncalls, doRet, cvars>>

(***************************************************************************)
(* Values.                                                                 *)
(***************************************************************************)
NoErr == "nil"
ErrStopped == "ErrStopped"
CtxErr == "ctxErr"          \* context.Canceled / context.DeadlineExceeded
NilErr == [kind |-> "nil", ref |-> 0]      \* a nil error in a Result
NilSlot == [Value |-> -1, Error |-> [kind |-> "nilptr", ref |-> 0]]
                                           \* a nil *Result in the final vector

NoCall == [op |-> "none", pc |-> "done", fn |-> 0, err |-> NoErr,
           final |-> <<>>, afterStop |-> FALSE, snap |-> {}]

Callers == DOMAIN call

(***************************************************************************)
(* golang.org/x/sync/semaphore.Weighted as used by the worker: Acquire     *)
(* succeeds at once when enough units are free and nobody waits, else the  *)
(* caller queues (FIFO); Release wakes waiters from the front while the    *)
(* front one fits.                                                         *)
(***************************************************************************)
RECURSIVE notifyWaiters(_)
notifyWaiters(s) ==
  IF s.waiters # <<>> /\ size - s.cur >= Head(s.waiters).n
    THEN notifyWaiters([cur |-> s.cur + Head(s.waiters).n,
                        waiters |-> Tail(s.waiters)])
    ELSE s

\* the callers whose wait ended between semaphore states s and t
Woken(s, t) ==
  {s.waiters[k].who : k \in 1..Len(s.waiters)} \ {t.waiters[k].who : k \in 1..Len(t.waiters)}

semRelease(s, n) == notifyWaiters([cur |-> s.cur - n, waiters |-> s.waiters])

RemoveWaiter(ws, c) == SelectSeq(ws, LAMBDA w : w.who # c)

\* a waiter gives up (its context is done): it leaves the queue, and if it was
\* the front one the waiters behind it are served
semCancel(s, c) ==
  LET isFront == s.waiters # <<>> /\ Head(s.waiters).who = c
      rest == [cur |-> s.cur, waiters |-> RemoveWaiter(s.waiters, c)]
  IN IF isFront /\ size > s.cur THEN notifyWaiters(rest) ELSE rest

\* the calls of the callers in W move from "waiting" to "acquired"
Wake(cs, W) ==
  [c \in DOMAIN cs |-> IF c \in W THEN [cs[c] EXCEPT !.pc = "acquired"] ELSE cs[c]]

(***************************************************************************)
(* Worker.  Each operator below is one atomic step of a call by caller c;  *)
(* it constrains the pool's variables and the caller's call record only.   *)
(***************************************************************************)
isStopped == stopped = 1

\* the record of a call that begins now; afterStop: the pool was stopped before it
Begun(op) == [NoCall EXCEPT !.op = op, !.afterStop = isStopped]

\* the call record of c with the call's outcome, the call being over
Returned(c, e, f) == [call[c] EXCEPT !.pc = "done", !.err = e, !.final = f]

\* sem.Acquire(ctx, n), the part under the semaphore's mutex: take the units or queue
semAcquire(c, n) ==
  IF size - sem.cur >= n /\ sem.waiters = <<>>
    THEN /\ sem' = [sem EXCEPT !.cur = @ + n]
         /\ call' = [call EXCEPT ![c].pc = "acquired"]
    ELSE /\ sem' = [sem EXCEPT !.waiters = Append(@, [who |-> c, n |-> n])]
         /\ call' = [call EXCEPT ![c].pc = "waiting"]

\* Do, line 88: the first isStopped
DoBegin(c, fn) ==
  /\ call[c].pc = "done"
  /\ IF isStopped
       THEN /\ call' = [call EXCEPT ![c] = [Begun("Do") EXCEPT !.fn = fn,
                           !.err = ErrStopped]]
            /\ doRet' = doRet @@ (fn :> ErrStopped)
       ELSE /\ call' = [call EXCEPT ![c] = [Begun("Do") EXCEPT !.fn = fn,
                           !.pc = "acquire"]]
            /\ doRet' = doRet
  /\ UNCHANGED <<size, sem, i, results, stopped, tasks>>

\* Do that takes its unit without waiting for one to be free
DoAcquireNoWait(c) ==
  /\ call[c].op = "Do" /\ call[c].pc = "acquire"
  /\ sem' = [sem EXCEPT !.cur = @ + 1]
  /\ call' = [call EXCEPT ![c].pc = "acquired"]
  /\ UNCHANGED <<size, i, results, stopped, tasks, doRet>>

\* Do, line 92: sem.Acquire(ctx, 1)
DoAcquire(c) ==
  /\ call[c].op = "Do" /\ call[c].pc = "acquire"
  /\ semAcquire(c, 1)
  /\ UNCHANGED <<size, i, results, stopped, tasks, doRet>>

\* Do, lines 92-94: the context is done before the semaphore is acquired
DoCancel(c) ==
  /\ call[c].op = "Do" /\ call[c].pc \in {"acquire", "waiting"}
  /\ LET s == semCancel(sem, c) IN
       /\ sem' = s
       /\ call' = Wake([call EXCEPT ![c] = Returned(c, CtxErr, <<>>)], Woken(sem, s) \ {c})
  /\ doRet' = doRet @@ (call[c].fn :> CtxErr)
  /\ UNCHANGED <<size, i, results, stopped, tasks>>

\* DoRecheck without its isStopped: a Do that waited through a Done is accepted
DoRecheckSkipped(c) ==
  /\ call[c].op = "Do" /\ call[c].pc = "acquired"
  /\ call' = [call EXCEPT ![c].pc = "add"]
  /\ UNCHANGED <<size, sem, i, results, stopped, tasks, doRet>>

\* a DoRecheck that keeps the unit when it refuses
DoRecheckKeepsUnit(c) ==
  /\ call[c].op = "Do" /\ call[c].pc = "acquired"
  /\ IF isStopped
       THEN /\ call' = [call EXCEPT ![c] = Returned(c, ErrStopped, <<>>)]
            /\ doRet' = doRet @@ (call[c].fn :> ErrStopped)
       ELSE /\ call' = [call EXCEPT ![c].pc = "add"]
            /\ UNCHANGED doRet
  /\ UNCHANGED <<size, sem, i, results, stopped, tasks>>

\* Do, lines 98-101: the second isStopped; when stopped the unit goes back
DoRecheck(c) ==
  /\ call[c].op = "Do" /\ call[c].pc = "acquired"
  /\ IF isStopped
       THEN LET s == semRelease(sem, 1) IN
              /\ sem' = s
              /\ call' = Wake([call EXCEPT ![c] = Returned(c, ErrStopped, <<>>)],
                              Woken(sem, s))
              /\ doRet' = doRet @@ (call[c].fn :> ErrStopped)
       ELSE /\ call' = [call EXCEPT ![c].pc = "add"]
            /\ UNCHANGED <<sem, doRet>>
  /\ UNCHANGED <<size, i, results, stopped, tasks>>

\* Do, lines 103-120: i := atomic.AddInt64(&w.i, 1), the goroutine is started
\* with that index and Do returns nil.  (Starting the goroutine and returning
\* touch nothing another goroutine reads, so they are taken with the add.)
DoAdd(c) ==
  /\ call[c].op = "Do" /\ call[c].pc = "add"
  /\ i' = i + 1
  /\ tasks' = tasks @@ ((i + 1) :>
                 [fn |-> call[c].fn, st |-> "spawned", out |-> NilSlot])
  /\ call' = [call EXCEPT ![c] = Returned(c, NoErr, <<>>)]
  /\ doRet' = doRet @@ (call[c].fn :> NoErr)
  /\ UNCHANGED <<size, sem, results, stopped>>

\* the goroutine of Do, line 107: fn starts to execute
FnStart(k) ==
  /\ k \in DOMAIN tasks /\ tasks[k].st = "spawned"
  /\ tasks' = [tasks EXCEPT ![k].st = "running"]

\* the goroutine of Do, line 107: fn returns (t, err) = r
FnReturn(k, r) ==
  /\ k \in DOMAIN tasks /\ tasks[k].st = "running"
  /\ tasks' = [tasks EXCEPT ![k].st = "ran", ![k].out = r]

\* the goroutine of Do, lines 109-117: the result is appended under resultsLock
TaskAppend(k) ==
  /\ k \in DOMAIN tasks /\ tasks[k].st = "ran"
  /\ results' = Append(results, [idx |-> k, result |-> tasks[k].out])
  /\ tasks' = [tasks EXCEPT ![k].st = "appended"]
  /\ UNCHANGED <<size, sem, i, stopped, call, doRet>>

\* the goroutine of Do, line 106: the deferred sem.Release(1), run last
TaskRelease(k) ==
  /\ k \in DOMAIN tasks /\ tasks[k].st = "appended"
  /\ LET s == semRelease(sem, 1) IN
       /\ sem' = s
       /\ call' = Wake(call, Woken(sem, s))
  /\ tasks' = [tasks EXCEPT ![k].st = "exited"]
  /\ UNCHANGED <<size, i, results, stopped, doRet>>

\* WaitBegin without its isStopped
WaitBeginUnchecked(c) ==
  /\ call[c].pc = "done"
  /\ call' = [call EXCEPT ![c] = [Begun("Wait") EXCEPT !.pc = "acquire",
                 !.snap = DOMAIN tasks]]
  /\ UNCHANGED <<size, sem, i, results, stopped, tasks, doRet>>

\* Wait, line 126: isStopped.  snap: the tasks of the Do calls that have returned
WaitBegin(c) ==
  /\ call[c].pc = "done"
  /\ call' = [call EXCEPT ![c] =
       IF isStopped
         THEN [Begun("Wait") EXCEPT !.err = ErrStopped]
         ELSE [Begun("Wait") EXCEPT !.pc = "acquire", !.snap = DOMAIN tasks]]
  /\ UNCHANGED <<size, sem, i, results, stopped, tasks, doRet>>

\* Wait that takes one unit only
WaitAcquireOne(c) ==
  /\ call[c].op = "Wait" /\ call[c].pc = "acquire"
  /\ semAcquire(c, 1)
  /\ UNCHANGED <<size, i, results, stopped, tasks, doRet>>

\* Wait, line 130: sem.Acquire(ctx, w.size)
WaitAcquire(c) ==
  /\ call[c].op = "Wait" /\ call[c].pc = "acquire"
  /\ semAcquire(c, size)
  /\ UNCHANGED <<size, i, results, stopped, tasks, doRet>>

\* a Done that takes its stop back when its context is done
WaitCancelRestart(c) ==
  /\ call[c].op \in {"Wait", "Done"} /\ call[c].pc \in {"acquire", "waiting"}
  /\ LET s == semCancel(sem, c) IN
       /\ sem' = s
       /\ call' = Wake([call EXCEPT ![c] = Returned(c, CtxErr, <<>>)], Woken(sem, s) \ {c})
  /\ stopped' = IF call[c].op = "Done" THEN 0 ELSE stopped
  /\ UNCHANGED <<size, i, results, tasks, doRet>>

\* Wait and Done, lines 130-132 and 151-153: the context is done first
WaitCancel(c) ==
  /\ call[c].op \in {"Wait", "Done"} /\ call[c].pc \in {"acquire", "waiting"}
  /\ LET s == semCancel(sem, c) IN
       /\ sem' = s
       /\ call' = Wake([call EXCEPT ![c] = Returned(c, CtxErr, <<>>)], Woken(sem, s) \ {c})
  /\ UNCHANGED <<size, i, results, stopped, tasks, doRet>>

\* Wait, lines 133-135: the deferred Release(w.size); Wait returns nil
WaitReturn(c) ==
  /\ call[c].op = "Wait" /\ call[c].pc = "acquired"
  /\ LET s == semRelease(sem, size) IN
       /\ sem' = s
       /\ call' = Wake([call EXCEPT ![c] = Returned(c, NoErr, <<>>)], Woken(sem, s))
  /\ UNCHANGED <<size, i, results, stopped, tasks, doRet>>

\* Done, line 147: CompareAndSwap(&w.stopped, 0, 1)
DoneBegin(c) ==
  /\ call[c].pc = "done"
  /\ call' = [call EXCEPT ![c] =
       IF isStopped
         THEN [Begun("Done") EXCEPT !.err = ErrStopped]
         ELSE [Begun("Done") EXCEPT !.pc = "acquire"]]
  /\ stopped' = 1
  /\ UNCHANGED <<size, sem, i, results, tasks, doRet>>

\* Done, line 151: sem.Acquire(ctx, w.size)
DoneAcquire(c) ==
  /\ call[c].op = "Done" /\ call[c].pc = "acquire"
  /\ semAcquire(c, size)
  /\ UNCHANGED <<size, i, results, stopped, tasks, doRet>>

\* the results in order of completion, as a vector
finalByCompletion(rs) == [k \in 1..Len(rs) |-> rs[k].result]

\* Done, lines 160-163: final[v.idx] = v.result for each v of w.results, in a
\* vector of len(w.results) nil slots
final(rs) ==
  [k \in 1..Len(rs) |->
     LET at == {p \in 1..Len(rs) : rs[p].idx = k - 1}
     IN IF at = {} THEN NilSlot
        ELSE rs[CHOOSE p \in at : \A q \in at : q <= p].result]

\* Done, lines 156-165: the vector is built under resultsLock, then the units
\* go back (nobody else holds one in between); an index beyond the vector panics
DoneReturn(c) ==
  /\ call[c].op = "Done" /\ call[c].pc = "acquired"
  /\ LET s == semRelease(sem, size)
         oob == \E p \in 1..Len(results) : results[p].idx >= Len(results)
     IN /\ sem' = s
        /\ call' = Wake([call EXCEPT ![c] =
                      IF oob THEN Returned(c, "panic", <<>>)
                             ELSE Returned(c, NoErr, final(results))],
                    Woken(sem, s))
  /\ UNCHANGED <<size, i, results, stopped, tasks, doRet>>

(***************************************************************************)
(* New, lines 56-70.                                                       *)
(***************************************************************************)
New(concurrency, numCPU) ==
  /\ size = (IF concurrency < 1 THEN (IF numCPU < 1 THEN 1 ELSE numCPU) ELSE concurrency)
  /\ sem = [cur |-> 0, waiters |-> <<>>]
  /\ i = -1
  /\ results = <<>>
  /\ stopped = 0
  /\ tasks = <<>>

\* no Clean runs: its variables are idle
NoClean ==
  /\ args = [ctx |-> "Background", registry |-> "sound", listing |-> <<>>,
             since |-> 0, keep |-> 0,
             tagFilter |-> [type |-> "Null", re |-> {}], dryRun |-> FALSE]
  /\ cl = [pc |-> "none"]
  /\ sent = {}

\* no request is served
NoServer ==
  /\ cache = {}
  /\ expired = {}
  /\ reqs = <<>>
  /\ jobs = <<>>
  /\ timers = [k \in 1..MaxMessages |-> 0]
  /\ stopCh = "open"

(***************************************************************************)
(* The pool under arbitrary concurrent callers: MaxCallers goroutines make *)
(* up to MaxCalls calls in all, each a Do of a work function of its own, a *)
(* Wait or a Done; a work function returns a value or an error.            *)
(***************************************************************************)
\* callers are interchangeable: they are numbered in the order of their first call
CanCall(c) == ncalls < MaxCalls /\ (IF c = 1 THEN TRUE ELSE call[c - 1].op # "none")

WorkerInit ==
  /\ \E concurrency \in 0..MaxConcurrency, numCPU \in 1..MaxConcurrency :
       New(concurrency, numCPU)
  /\ call = [c \in 1..MaxCallers |-> NoCall]
  /\ ncalls = 0
  /\ doRet = <<>>
  /\ NoClean
  /\ NoServer

ClientDo(c) ==
  /\ CanCall(c)
  /\ DoBegin(c, ncalls + 1)
  /\ ncalls' = ncalls + 1
  /\ UNCHANGED cvars

ClientWait(c) ==
  /\ CanCall(c)
  /\ WaitBegin(c)
  /\ ncalls' = ncalls + 1
  /\ UNCHANGED cvars

ClientDone(c) ==
  /\ CanCall(c)
  /\ DoneBegin(c)
  /\ ncalls' = ncalls + 1
  /\ UNCHANGED cvars

WorkStart(k) ==
  /\ FnStart(k)
  /\ UNCHANGED <<size, sem, i, results, stopped, call, ncalls, doRet, cvars>>

\* the work functions of the callers: the odd ones return their number as value,
\* the even ones fail with their number as error
Work(fn) ==
  IF fn % 2 = 1 THEN [Value |-> fn, Error |-> NilErr]
                ELSE [Value |-> 0, Error |-> [kind |-> "work", ref |-> fn]]

WorkReturn(k) ==
  /\ FnReturn(k, Work(tasks[k].fn))
  /\ UNCHANGED <<size, sem, i, results, stopped, call, ncalls, doRet, cvars>>

WorkerNext ==
  \/ \E c \in Callers : ClientDo(c)
  \/ \E c \in Callers : ClientWait(c)
  \/ \E c \in Callers : ClientDone(c)
  \/ \E k \in DOMAIN tasks : WorkStart(k)
  \/ \E k \in DOMAIN tasks : WorkReturn(k)
  \/ \E c \in Callers : DoAcquire(c) /\ UNCHANGED <<ncalls, cvars>>
  \/ \E c \in Callers : DoCancel(c) /\ UNCHANGED <<ncalls, cvars>>
  \/ \E c \in Callers : DoRecheck(c) /\ UNCHANGED <<ncalls, cvars>>
  \/ \E c \in Callers : DoAdd(c) /\ UNCHANGED <<ncalls, cvars>>
  \/ \E k \in DOMAIN tasks : TaskAppend(k) /\ UNCHANGED <<ncalls, cvars>>
  \/ \E k \in DOMAIN tasks : TaskRelease(k) /\ UNCHANGED <<ncalls, cvars>>
  \/ \E c \in Callers : WaitAcquire(c) /\ UNCHANGED <<ncalls, cvars>>
  \/ \E c \in Callers : WaitCancel(c) /\ UNCHANGED <<ncalls, cvars>>
  \/ \E c \in Callers : WaitReturn(c) /\ UNCHANGED <<ncalls, cvars>>
  \/ \E c \in Callers : DoneAcquire(c) /\ UNCHANGED <<ncalls, cvars>>
  \/ \E c \in Callers : DoneReturn(c) /\ UNCHANGED <<ncalls, cvars>>

SpecWorker == WorkerInit /\ [][WorkerNext]_vars

\* the steps of a call of caller c that is under way, no context being done
CallStep(c) ==
  /\ \/ DoAcquire(c) \/ DoRecheck(c) \/ DoAdd(c)
     \/ WaitAcquire(c) \/ WaitReturn(c)
     \/ DoneAcquire(c) \/ DoneReturn(c)
  /\ UNCHANGED <<ncalls, cvars>>

\* the steps of the goroutine of task k, its work function returning
TaskStep(k) ==
  \/ WorkStart(k)
  \/ WorkReturn(k)
  \/ TaskAppend(k) /\ UNCHANGED <<ncalls, cvars>>
  \/ TaskRelease(k) /\ UNCHANGED <<ncalls, cvars>>

\* the pool with contexts that are never done
LiveNext ==
  \/ \E c \in Callers : ClientDo(c)
  \/ \E c \in Callers : ClientWait(c)
  \/ \E c \in Callers : ClientDone(c)
  \/ \E c \in Callers : CallStep(c)
  \/ \E k \in 0..(MaxCalls - 1) : TaskStep(k)

\* the scheduler runs every goroutine that can run: a caller inside a call and
\* the goroutine of a task take their next step; nobody has to make a call
SpecWorkerFair ==
  /\ WorkerInit /\ [][LiveNext]_vars
  /\ \A c \in 1..MaxCallers : WF_vars(CallStep(c))
  /\ \A k \in 0..(MaxCalls - 1) : WF_vars(TaskStep(k))

(***************************************************************************)
(* Tag filters (filter.go).  A compiled regular expression is modelled by  *)
(* the set of tags it matches; re = NoRegexp is a filter holding no        *)
(* regular expression.  A pattern is the empty string, a string that does  *)
(* not compile, or a regular expression.                                   *)
(***************************************************************************)
Tags == 1..MaxTags

NoRegexp == {0}

EmptyPattern == [text |-> "", re |-> {}]
BadPattern == [text |-> "(", re |-> {}]
Pattern(S) == [text |-> "re", re |-> S]

\* regexp.Compile
Compile(p) ==
  IF p.text = "(" THEN [re |-> NoRegexp, err |-> "compile"]
                  ELSE [re |-> p.re, err |-> NoErr]

MatchString(re, t) == t \in re

\* a Null filter that accepts every input
TagFilterNullMatchesAll(tags) == TRUE

TagFilterNullMatches(tags) == FALSE

TagFilterFirstMatches(re, tags) ==
  IF Len(tags) < 1 \/ re = NoRegexp THEN FALSE ELSE MatchString(re, tags[1])

TagFilterAnyMatches(re, tags) ==
  IF re = NoRegexp THEN FALSE
  ELSE \E k \in 1..Len(tags) : MatchString(re, tags[k])

\* an All filter that refuses the empty list
TagFilterAllMatchesSome(re, tags) ==
  IF re = NoRegexp \/ Len(tags) = 0 THEN FALSE
  ELSE \A k \in 1..Len(tags) : MatchString(re, tags[k])

TagFilterAllMatches(re, tags) ==
  IF re = NoRegexp THEN FALSE
  ELSE \A k \in 1..Len(tags) : MatchString(re, tags[k])

Matches(f, tags) ==
  CASE f.type = "Null" -> TagFilterNullMatches(tags)
    [] f.type = "First" -> TagFilterFirstMatches(f.re, tags)
    [] f.type = "Any" -> TagFilterAnyMatches(f.re, tags)
    [] f.type = "All" -> TagFilterAllMatches(f.re, tags)

NoFilter == [type |-> "nil", re |-> {}]

\* a BuildTagFilter that takes the first pattern given and ignores the others
BuildTagFilterLenient(first, any, all) ==
  LET given(p) == p.text # ""
      built(ty, p) ==
        IF Compile(p).err # NoErr
          THEN [filter |-> NoFilter, err |-> "compile"]
          ELSE [filter |-> [type |-> ty, re |-> Compile(p).re], err |-> NoErr]
  IN IF given(first) THEN built("First", first)
     ELSE IF given(any) THEN built("Any", any)
     ELSE IF given(all) THEN built("All", all)
     ELSE [filter |-> [type |-> "Null", re |-> {}], err |-> NoErr]

\* BuildTagFilter, lines 31-61: at most one pattern may be given; none gives the
\* Null filter
BuildTagFilter(first, any, all) ==
  LET given(p) == p.text # ""
      built(ty, p) ==
        IF Compile(p).err # NoErr
          THEN [filter |-> NoFilter, err |-> "compile"]
          ELSE [filter |-> [type |-> ty, re |-> Compile(p).re], err |-> NoErr]
  IN IF (given(first) /\ given(any)) \/ (given(first) /\ given(all))
          \/ (given(any) /\ given(all))
       THEN [filter |-> NoFilter, err |-> "only one"]
     ELSE IF given(first) THEN built("First", first)
     ELSE IF given(any) THEN built("Any", any)
     ELSE IF given(all) THEN built("All", all)
     ELSE [filter |-> [type |-> "Null", re |-> {}], err |-> NoErr]

\* the filters BuildTagFilter returns for patterns out of P
FiltersOf(P) ==
  {BuildTagFilter(a, b, c).filter :
     <<a, b, c>> \in {t \in P \X P \X P : BuildTagFilter(t[1], t[2], t[3]).err = NoErr}}

(***************************************************************************)
(* Cleaner.shouldDelete, lines 471-513.  Times are points of 0..MaxTime.   *)
(***************************************************************************)
\* shouldDelete with the grace test of the first Clean (Before instead of After)
shouldDeleteBefore(m, snc, f) ==
  IF ~(m.Info.Uploaded < snc) THEN FALSE
  ELSE IF Len(m.Info.Tags) = 0 THEN TRUE
  ELSE Matches(f, m.Info.Tags)

\* shouldDelete without the grace test
shouldDeleteAnyAge(m, snc, f) ==
  IF Len(m.Info.Tags) = 0 THEN TRUE
  ELSE Matches(f, m.Info.Tags)

shouldDelete(m, snc, f) ==
  IF m.Info.Uploaded > snc THEN FALSE
  ELSE IF Len(m.Info.Tags) = 0 THEN TRUE
  ELSE IF Matches(f, m.Info.Tags) THEN TRUE
  ELSE FALSE

(***************************************************************************)
(* The sort of Clean, lines 224-240: sort.Slice with this less, which for  *)
(* a slice of at most 12 elements is an insertion sort.                    *)
(***************************************************************************)
dockerExistence == 1

less(a, b) ==
  IF b.Info.Created < dockerExistence \/ a.Info.Created < dockerExistence
       \/ b.Info.Created = a.Info.Created
    THEN b.Info.Uploaded < a.Info.Uploaded
    ELSE b.Info.Created < a.Info.Created

Swap(s, a, b) == [s EXCEPT ![a] = s[b], ![b] = s[a]]

\* the inner loop: for j := k; j > 1 && less(data[j], data[j-1]); j-- { swap }
RECURSIVE insertionInner(_, _)
insertionInner(s, j) ==
  IF j > 1 /\ less(s[j], s[j - 1]) THEN insertionInner(Swap(s, j, j - 1), j - 1) ELSE s

\* the outer loop, from position k on
RECURSIVE insertionSortFrom(_, _)
insertionSortFrom(s, k) ==
  IF k > Len(s) THEN s ELSE insertionSortFrom(insertionInner(s, k), k + 1)

sortSlice(s) == insertionSortFrom(s, 2)

(***************************************************************************)
(* Cleaner.Clean, lines 204-448, as one goroutine (caller 1 of the pool)   *)
(* plus the goroutines of its tasks.  A failing registry answers every     *)
(* request as it likes: success, an error, or, for the deletion of a       *)
(* digest, the dangling-parent error; a sound one always succeeds.  A      *)
(* context WithCancel can be done at any moment, Background never is.      *)
(***************************************************************************)
Main == 1

\* the identifier strings, as numbers that order like the strings: "" is 0
TagIdentifier(t) == 2 * t
DigestIdentifier(d) == 2 * d - 1

\* the work functions Clean hands to Do: pass 0 is the first deletion of a digest
TagFn(d, t) == [kind |-> "tag", digest |-> d, tag |-> t, pass |-> 0]
DigestFn(d, p) == [kind |-> "digest", digest |-> d, tag |-> 0, pass |-> p]

Times == 0..MaxTime

Min(S) == CHOOSE x \in S : \A y \in S : x <= y

\* the elements of a set of identifiers, in ascending order
RECURSIVE Ascending(_)
Ascending(S) == IF S = {} THEN <<>> ELSE <<Min(S)>> \o Ascending(S \ {Min(S)})

\* the tag lists a manifest can have: no tag twice
TagLists ==
  {ts \in UNION {[1..n -> Tags] : n \in 0..MaxTags} :
     \A a, b \in 1..Len(ts) : a # b => ts[a] # ts[b]}

Infos == [Tags : TagLists, Created : Times, Uploaded : Times]

\* a registry's answer to the listing: a tag names one manifest only
Listings ==
  {l \in UNION {[1..n -> Infos] : n \in 0..MaxManifests} :
     \A a, b \in 1..Len(l) : a # b =>
       \A x \in 1..Len(l[a].Tags), y \in 1..Len(l[b].Tags) : l[a].Tags[x] # l[b].Tags[y]}

\* the filters BuildTagFilter returns when the pattern given, if any, matches
\* the first tag only
TagFilters == FiltersOf({EmptyPattern, BadPattern, Pattern({Min(Tags)})})

Everything == BuildTagFilter(EmptyPattern, Pattern(Tags), EmptyPattern).filter

\* the start of Clean on a pool of the given concurrency
CleanStart(concurrency, a) ==
  /\ New(concurrency, 1)
  /\ call = <<NoCall>>
  /\ ncalls = 0
  /\ doRet = <<>>
  /\ args = a
  /\ sent = {}
  /\ NoServer
  /\ cl = [pc |-> "list", manifests |-> <<>>, mi |-> 0, ti |-> 0, di |-> 0,
           keepCount |-> 0, digestsToDelete |-> <<>>, toRetry |-> <<>>,
           toRetryCopy |-> <<>>, attempt |-> 0,
           ret |-> [deleted |-> <<>>, err |-> NoErr, errs |-> <<>>]]

\* every repository and every policy, on a registry that does not fail, with a
\* context that is never done and one task at a time
Policies ==
  [ctx : {"Background"}, registry : {"sound"}, listing : Listings,
   since : 1..(MaxTime - 1), keep : 0..MaxKeep, tagFilter : TagFilters,
   dryRun : BOOLEAN]

\* a manifest uploaded and created at since, with the given tags
Old(ts) == [Tags |-> ts, Created |-> 1, Uploaded |-> 1]

\* repositories of one old manifest, or of old manifests without tags, all of
\* them to delete, on a registry that can fail any request and with a context
\* that can be done at any moment
Faulty ==
  [ctx : {"WithCancel"}, registry : {"failing"},
   listing : {l \in Listings :
                /\ \A k \in 1..Len(l) : l[k] = Old(l[k].Tags)
                /\ Len(l) > 1 => \A k \in 1..Len(l) : l[k].Tags = <<>>},
   since : {1}, keep : {0}, tagFilter : {Everything},
   dryRun : {FALSE}]

CleanInit ==
  \/ \E a \in Policies : CleanStart(1, a)
  \/ \E concurrency \in 1..MaxConcurrency, a \in Faulty : CleanStart(concurrency, a)

\* Clean is at pc and not inside a call of the pool
At(pc) == cl.pc = pc /\ call[Main].pc = "done"

\* Clean returns (nil, err)
ReturnErr(err, errs) ==
  [cl EXCEPT !.pc = "returned", !.ret = [deleted |-> <<>>, err |-> err, errs |-> errs]]

\* lines 205-258: the listing (which can fail), the slice of manifests in the
\* order of the range over the map (the order of args.listing; a manifest's
\* digest is its place in it), the sort
CleanList ==
  /\ At("list")
  /\ \/ /\ args.registry = "failing"
        /\ cl' = ReturnErr("list", <<>>)
     \/ cl' = [cl EXCEPT !.pc = "select", !.mi = 1,
                 !.manifests = sortSlice([k \in 1..Len(args.listing) |->
                      [Digest |-> k, Info |-> args.listing[k]]])]
  /\ UNCHANGED <<pool, ncalls, args, sent, svars>>

\* the selection that counts every manifest it passes against keep
SelectKeepAll(m) ==
  IF cl.keepCount < args.keep
    THEN [cl EXCEPT !.keepCount = @ + 1, !.mi = @ + 1]
  ELSE IF ~shouldDelete(m, args.since, args.tagFilter)
    THEN [cl EXCEPT !.mi = @ + 1]
    ELSE [cl EXCEPT !.digestsToDelete = Append(@, m.Digest),
                    !.mi = IF m.Info.Tags = <<>> THEN @ + 1 ELSE @,
                    !.ti = 1,
                    !.pc = IF m.Info.Tags = <<>> THEN "select" ELSE "tags"]

\* lines 266-303, one manifest of the loop: skipped, kept, or noted for deletion
Select(m) ==
  IF ~shouldDelete(m, args.since, args.tagFilter)
    THEN [cl EXCEPT !.mi = @ + 1]
  ELSE IF cl.keepCount < args.keep
    THEN [cl EXCEPT !.keepCount = @ + 1, !.mi = @ + 1]
    ELSE [cl EXCEPT !.digestsToDelete = Append(@, m.Digest),
                    !.mi = IF m.Info.Tags = <<>> THEN @ + 1 ELSE @,
                    !.ti = 1,
                    !.pc = IF m.Info.Tags = <<>> THEN "select" ELSE "tags"]

CleanSelect ==
  /\ At("select") /\ cl.mi <= Len(cl.manifests)
  /\ cl' = Select(cl.manifests[cl.mi])
  /\ UNCHANGED <<pool, ncalls, args, sent, svars>>

\* lines 303-306: w.Do of the deletion of one tag
CleanDoTag ==
  /\ At("tags")
  /\ LET m == cl.manifests[cl.mi] IN DoBegin(Main, TagFn(m.Digest, m.Info.Tags[cl.ti]))
  /\ cl' = [cl EXCEPT !.pc = "tagsRet"]
  /\ UNCHANGED <<ncalls, args, sent, svars>>

\* a loop that hands the first tag of a manifest to the pool and no other
CleanTagRetFirstOnly ==
  /\ At("tagsRet")
  /\ cl' = IF call[Main].err # NoErr THEN ReturnErr(call[Main].err, <<>>)
           ELSE [cl EXCEPT !.mi = @ + 1, !.pc = "select"]
  /\ UNCHANGED <<pool, ncalls, args, sent, svars>>

\* lines 319-321: what that Do returned
CleanTagRet ==
  /\ At("tagsRet")
  /\ cl' = IF call[Main].err # NoErr THEN ReturnErr(call[Main].err, <<>>)
           ELSE IF cl.ti < Len(cl.manifests[cl.mi].Info.Tags)
             THEN [cl EXCEPT !.ti = @ + 1, !.pc = "tags"]
             ELSE [cl EXCEPT !.mi = @ + 1, !.pc = "select"]
  /\ UNCHANGED <<pool, ncalls, args, sent, svars>>

\* Clean without the Wait between the tags and the digests
CleanWaitTagsSkipped ==
  /\ At("select") /\ cl.mi > Len(cl.manifests)
  /\ cl' = [cl EXCEPT !.pc = "digests", !.di = 1]
  /\ UNCHANGED <<pool, ncalls, args, sent, svars>>

\* line 327: w.Wait after the loop
CleanWaitTags ==
  /\ At("select") /\ cl.mi > Len(cl.manifests)
  /\ WaitBegin(Main)
  /\ cl' = [cl EXCEPT !.pc = "wait1"]
  /\ UNCHANGED <<ncalls, args, sent, svars>>

\* lines 327-329
CleanWaitTagsRet ==
  /\ At("wait1")
  /\ cl' = IF call[Main].err # NoErr THEN ReturnErr(call[Main].err, <<>>)
           ELSE [cl EXCEPT !.pc = "digests", !.di = 1]
  /\ UNCHANGED <<pool, ncalls, args, sent, svars>>

\* lines 330-333: w.Do of the deletion of one digest
CleanDoDigest ==
  /\ At("digests") /\ cl.di <= Len(cl.digestsToDelete)
  /\ DoBegin(Main, DigestFn(cl.digestsToDelete[cl.di], 0))
  /\ cl' = [cl EXCEPT !.pc = "digestsRet"]
  /\ UNCHANGED <<ncalls, args, sent, svars>>

\* lines 359-361
CleanDigestRet ==
  /\ At("digestsRet")
  /\ cl' = IF call[Main].err # NoErr THEN ReturnErr(call[Main].err, <<>>)
           ELSE [cl EXCEPT !.di = @ + 1, !.pc = "digests"]
  /\ UNCHANGED <<pool, ncalls, args, sent, svars>>

\* line 365: w.Wait after the digests
CleanWaitDigests ==
  /\ At("digests") /\ cl.di > Len(cl.digestsToDelete)
  /\ WaitBegin(Main)
  /\ cl' = [cl EXCEPT !.pc = "wait2"]
  /\ UNCHANGED <<ncalls, args, sent, svars>>

\* lines 365-370
CleanWaitDigestsRet ==
  /\ At("wait2")
  /\ cl' = IF call[Main].err # NoErr THEN ReturnErr(call[Main].err, <<>>)
           ELSE [cl EXCEPT !.pc = "retry", !.attempt = 0]
  /\ UNCHANGED <<pool, ncalls, args, sent, svars>>

MaxRetries == 3

\* the retry loop that makes a pass as long as a digest is left to retry
CleanRetryUnbounded ==
  /\ At("retry") /\ Len(cl.toRetry) # 0
  /\ cl' = [cl EXCEPT !.pc = "retryDo", !.toRetryCopy = <<>>, !.di = 1]
  /\ UNCHANGED <<pool, ncalls, args, sent, svars>>

\* lines 370-381: the head of the retry loop, when there is a pass to make
CleanRetry ==
  /\ At("retry") /\ cl.attempt < MaxRetries /\ Len(cl.toRetry) # 0
  /\ cl' = [cl EXCEPT !.pc = "retryDo", !.toRetryCopy = <<>>, !.di = 1]
  /\ UNCHANGED <<pool, ncalls, args, sent, svars>>

\* lines 382-385: w.Do of the renewed deletion of one digest
CleanDoRetry ==
  /\ At("retryDo") /\ cl.di <= Len(cl.toRetry)
  /\ DoBegin(Main, DigestFn(cl.toRetry[cl.di], cl.attempt + 1))
  /\ cl' = [cl EXCEPT !.pc = "retryRet"]
  /\ UNCHANGED <<ncalls, args, sent, svars>>

\* lines 406-408
CleanRetryRet ==
  /\ At("retryRet")
  /\ cl' = IF call[Main].err # NoErr THEN ReturnErr(call[Main].err, <<>>)
           ELSE [cl EXCEPT !.di = @ + 1, !.pc = "retryDo"]
  /\ UNCHANGED <<pool, ncalls, args, sent, svars>>

\* line 412: w.Wait at the end of a retry pass
CleanWaitRetry ==
  /\ At("retryDo") /\ cl.di > Len(cl.toRetry)
  /\ WaitBegin(Main)
  /\ cl' = [cl EXCEPT !.pc = "wait3"]
  /\ UNCHANGED <<ncalls, args, sent, svars>>

\* lines 412-418
CleanWaitRetryRet ==
  /\ At("wait3")
  /\ cl' = IF call[Main].err # NoErr THEN ReturnErr(call[Main].err, <<>>)
           ELSE [cl EXCEPT !.pc = "retry", !.toRetry = cl.toRetryCopy, !.attempt = @ + 1]
  /\ UNCHANGED <<pool, ncalls, args, sent, svars>>

\* line 421: w.Done once the retry loop is over
CleanDone ==
  /\ At("retry") /\ ~(cl.attempt < MaxRetries /\ Len(cl.toRetry) # 0)
  /\ DoneBegin(Main)
  /\ cl' = [cl EXCEPT !.pc = "done"]
  /\ UNCHANGED <<ncalls, args, sent, svars>>

\* the strings as they come
unsorted(s) == s

\* sort.Strings
RECURSIVE sortStrings(_)
sortStrings(s) ==
  IF s = <<>> THEN <<>>
  ELSE LET k == CHOOSE a \in 1..Len(s) : \A b \in 1..Len(s) : s[a] <= s[b]
       IN <<s[k]>> \o sortStrings([x \in 1..(Len(s) - 1) |-> IF x < k THEN s[x] ELSE s[x + 1]])

\* lines 427-438: the values and the errors of the results, in their order
RECURSIVE gatherDeleted(_)
gatherDeleted(rs) ==
  IF rs = <<>> THEN <<>>
  ELSE (IF Head(rs).Error = NilErr /\ Head(rs).Value # 0 THEN <<Head(rs).Value>> ELSE <<>>)
         \o gatherDeleted(Tail(rs))

RECURSIVE gatherErrs(_)
gatherErrs(rs) ==
  IF rs = <<>> THEN <<>>
  ELSE (IF Head(rs).Error # NilErr THEN <<Head(rs).Error>> ELSE <<>>)
         \o gatherErrs(Tail(rs))

\* a gathering that returns the list next to the errors
CleanDoneRetPartial ==
  /\ At("done")
  /\ cl' = IF call[Main].err # NoErr THEN ReturnErr(call[Main].err, <<>>)
           ELSE [cl EXCEPT !.pc = "returned",
                   !.ret = [deleted |-> sortStrings(gatherDeleted(call[Main].final)),
                            err |-> IF gatherErrs(call[Main].final) # <<>> THEN "errs" ELSE NoErr,
                            errs |-> gatherErrs(call[Main].final)]]
  /\ UNCHANGED <<pool, ncalls, args, sent, svars>>

\* lines 421-447: the results are gathered; any error is returned instead of the list
CleanDoneRet ==
  /\ At("done")
  /\ cl' = IF call[Main].err # NoErr THEN ReturnErr(call[Main].err, <<>>)
           ELSE IF gatherErrs(call[Main].final) # <<>>
             THEN ReturnErr("errs", gatherErrs(call[Main].final))
             ELSE [cl EXCEPT !.pc = "returned",
                     !.ret = [deleted |-> sortStrings(gatherDeleted(call[Main].final)),
                              err |-> NoErr, errs |-> <<>>]]
  /\ UNCHANGED <<pool, ncalls, args, sent, svars>>

\* a deletion task that sends its delete whatever dryRun is
DeleteStartAlways(k) ==
  /\ FnStart(k)
  /\ sent' = sent \cup {tasks[k].fn}
  /\ UNCHANGED <<size, sem, i, results, stopped, call, ncalls, doRet, args, cl, svars>>

\* a deletion task of Clean starts: with dryRun nothing is sent, else
\* c.deleteOne sends the delete (lines 313-314, 339-340, 391-392)
DeleteStart(k) ==
  /\ FnStart(k)
  /\ sent' = IF args.dryRun THEN sent ELSE sent \cup {tasks[k].fn}
  /\ UNCHANGED <<size, sem, i, results, stopped, call, ncalls, doRet, args, cl, svars>>

Identifier(fn) ==
  IF fn.kind = "tag" THEN TagIdentifier(fn.tag) ELSE DigestIdentifier(fn.digest)

\* lines 312-318, 338-358, 390-405: the task reports its identifier (dryRun, or
\* the registry deleted the reference)
DeleteOk(k) ==
  /\ FnReturn(k, [Value |-> Identifier(tasks[k].fn), Error |-> NilErr])
  /\ UNCHANGED <<size, sem, i, results, stopped, call, ncalls, doRet, cvars>>

\* lines 314-316, 355, 402: the registry answered with an error
DeleteFailed(k) ==
  /\ ~args.dryRun /\ args.registry = "failing"
  /\ FnReturn(k, [Value |-> 0,
                  Error |-> [kind |-> tasks[k].fn.kind, ref |-> Identifier(tasks[k].fn)]])
  /\ UNCHANGED <<size, sem, i, results, stopped, call, ncalls, doRet, cvars>>

\* lines 344-353, 396-401: the registry answered a digest deletion with
\* GOOGLE_MANIFEST_DANGLING_PARENT_IMAGE: the digest is noted for a later pass
DeleteDangling(k) ==
  /\ ~args.dryRun /\ args.registry = "failing"
  /\ k \in DOMAIN tasks /\ tasks[k].fn.kind = "digest"
  /\ FnReturn(k, [Value |-> 0, Error |-> NilErr])
  /\ cl' = IF tasks[k].fn.pass = 0
             THEN [cl EXCEPT !.toRetry = Append(@, tasks[k].fn.digest)]
             ELSE [cl EXCEPT !.toRetryCopy = Append(@, tasks[k].fn.digest)]
  /\ UNCHANGED <<size, sem, i, results, stopped, call, ncalls, doRet, args, sent, svars>>

CleanNext ==
  \/ CleanList
  \/ CleanSelect
  \/ CleanDoTag
  \/ CleanTagRet
  \/ CleanWaitTags
  \/ CleanWaitTagsRet
  \/ CleanDoDigest
  \/ CleanDigestRet
  \/ CleanWaitDigests
  \/ CleanWaitDigestsRet
  \/ CleanRetry
  \/ CleanDoRetry
  \/ CleanRetryRet
  \/ CleanWaitRetry
  \/ CleanWaitRetryRet
  \/ CleanDone
  \/ CleanDoneRet
  \/ \E k \in DOMAIN tasks : DeleteStart(k)
  \/ \E k \in DOMAIN tasks : DeleteOk(k)
  \/ \E k \in DOMAIN tasks : DeleteFailed(k)
  \/ \E k \in DOMAIN tasks : DeleteDangling(k)
  \/ DoAcquire(Main) /\ UNCHANGED <<ncalls, cvars>>
  \/ args.ctx = "WithCancel" /\ DoCancel(Main) /\ UNCHANGED <<ncalls, cvars>>
  \/ DoRecheck(Main) /\ UNCHANGED <<ncalls, cvars>>
  \/ DoAdd(Main) /\ UNCHANGED <<ncalls, cvars>>
  \/ \E k \in DOMAIN tasks : TaskAppend(k) /\ UNCHANGED <<ncalls, cvars>>
  \/ \E k \in DOMAIN tasks : TaskRelease(k) /\ UNCHANGED <<ncalls, cvars>>
  \/ WaitAcquire(Main) /\ UNCHANGED <<ncalls, cvars>>
  \/ args.ctx = "WithCancel" /\ WaitCancel(Main) /\ UNCHANGED <<ncalls, cvars>>
  \/ WaitReturn(Main) /\ UNCHANGED <<ncalls, cvars>>
  \/ DoneAcquire(Main) /\ UNCHANGED <<ncalls, cvars>>
  \/ DoneReturn(Main) /\ UNCHANGED <<ncalls, cvars>>

SpecClean == CleanInit /\ [][CleanNext]_vars

(***************************************************************************)
(* shouldDelete on its own: one call, for any manifest, any since and any  *)
(* filter BuildTagFilter returns.                                          *)
(***************************************************************************)
ShouldDeleteInit ==
  /\ New(1, 1)
  /\ call = <<NoCall>>
  /\ ncalls = 0
  /\ doRet = <<>>
  /\ \E info \in Infos, s \in Times,
        f \in FiltersOf({EmptyPattern, BadPattern} \cup {Pattern(S) : S \in SUBSET Tags}) :
       args = [ctx |-> "Background", registry |-> "sound", listing |-> <<info>>,
               since |-> s, keep |-> 0, tagFilter |-> f, dryRun |-> FALSE]
  /\ cl = [pc |-> "shouldDelete", ret |-> FALSE]
  /\ sent = {}
  /\ NoServer

ShouldDeleteCall ==
  /\ cl.pc = "shouldDelete"
  /\ cl' = [pc |-> "returned",
            ret |-> shouldDelete([Digest |-> 1, Info |-> args.listing[1]],
                                 args.since, args.tagFilter)]
  /\ UNCHANGED <<pool, ncalls, args, sent, svars>>

SpecShouldDelete == ShouldDeleteInit /\ [][ShouldDeleteCall]_vars

(***************************************************************************)
(* ErrsToError on its own: one call, for any short list of errors.  An     *)
(* error is its message and whether it wraps another error.                *)
(***************************************************************************)
MaxErrs == 3          \* errors in a list
MaxTexts == 3         \* distinct error messages

Errors == [text : 1..MaxTexts, wraps : BOOLEAN]
ErrLists == UNION {[1..n -> Errors] : n \in 0..MaxErrs}

\* the error fmt.Errorf builds from the header and the bullet lines
Composite(count, lines) == [text |-> <<count, lines>>, wraps |-> FALSE]

\* lines 662-666: errMessages
sortedMessages(errs) == sortStrings([x \in 1..Len(errs) |-> errs[x].text])

\* lines 655-675
ErrsToError(errs) ==
  CASE Len(errs) = 0 -> NoErr
    [] Len(errs) = 1 -> errs[1]
    [] OTHER -> Composite(Len(errs), sortedMessages(errs))

ErrsToErrorInit ==
  /\ New(1, 1)
  /\ call = <<NoCall>>
  /\ ncalls = 0
  /\ doRet = <<>>
  /\ \E errs \in ErrLists : args = [errs |-> errs]
  /\ cl = [pc |-> "ErrsToError", ret |-> NoErr]
  /\ sent = {}
  /\ NoServer

ErrsToErrorCall ==
  /\ cl.pc = "ErrsToError"
  /\ cl' = [pc |-> "returned", ret |-> ErrsToError(args.errs)]
  /\ UNCHANGED <<pool, ncalls, args, sent, svars>>

SpecErrsToError == ErrsToErrorInit /\ [][ErrsToErrorCall]_vars

(***************************************************************************)
(* BuildTagFilter on its own: one call, for any three patterns.            *)
(***************************************************************************)
Patterns == {EmptyPattern, BadPattern} \cup {Pattern(S) : S \in SUBSET Tags}

BuildTagFilterInit ==
  /\ New(1, 1)
  /\ call = <<NoCall>>
  /\ ncalls = 0
  /\ doRet = <<>>
  /\ \E first \in Patterns, any \in Patterns, all \in Patterns :
       args = [first |-> first, any |-> any, all |-> all]
  /\ cl = [pc |-> "BuildTagFilter", ret |-> [filter |-> NoFilter, err |-> NoErr]]
  /\ sent = {}
  /\ NoServer

BuildTagFilterCall ==
  /\ cl.pc = "BuildTagFilter"
  /\ cl' = [pc |-> "returned", ret |-> BuildTagFilter(args.first, args.any, args.all)]
  /\ UNCHANGED <<pool, ncalls, args, sent, svars>>

SpecBuildTagFilter == BuildTagFilterInit /\ [][BuildTagFilterCall]_vars

(***************************************************************************)
(* Matches on its own: one call, for any filter value (also one built      *)
(* without a regular expression) and any tag list.                         *)
(***************************************************************************)
\* the filter values of the package: &TagFilterNull{}, and the three others
\* over a compiled expression or over nil
FilterValues ==
  {[type |-> "Null", re |-> {}]}
    \cup {[type |-> ty, re |-> re] :
            ty \in {"First", "Any", "All"}, re \in (SUBSET Tags) \cup {NoRegexp}}

MatchesInit ==
  /\ New(1, 1)
  /\ call = <<NoCall>>
  /\ ncalls = 0
  /\ doRet = <<>>
  /\ \E f \in FilterValues, tags \in TagLists : args = [filter |-> f, tags |-> tags]
  /\ cl = [pc |-> "Matches", ret |-> FALSE]
  /\ sent = {}
  /\ NoServer

MatchesCall ==
  /\ cl.pc = "Matches"
  /\ cl' = [pc |-> "returned", ret |-> Matches(args.filter, args.tags)]
  /\ UNCHANGED <<pool, ncalls, args, sent, svars>>

SpecMatches == MatchesInit /\ [][MatchesCall]_vars

(***************************************************************************)
(* Cleaner.ListChildRepositories, lines 518-649.  A name is a string, here *)
(* a sequence of characters: Slash, and letters that stand for themselves. *)
(* The registries are the hosts of one letter; the catalog of a registry   *)
(* is any set of paths.  Each Catalog call can fail.                       *)
(***************************************************************************)
MaxRoots == 2         \* roots in a call
MaxPath == 3          \* characters in the path of a repository
MaxHosts == 2         \* registries

Slash == 0
Letter == 1

Hosts == {<<h>> : h \in 1..MaxHosts}

\* the paths: letters with single slashes between them
Paths ==
  {p \in UNION {[1..n -> {Slash, Letter}] : n \in 1..MaxPath} :
     /\ p[1] # Slash /\ p[Len(p)] # Slash
     /\ \A x \in 1..(Len(p) - 1) : ~(p[x] = Slash /\ p[x + 1] = Slash)}

\* registry.Name() + "/" + repo
FullName(host, path) == host \o <<Slash>> \o path

\* a root that gcrname.NewRepository refuses: a host and a slash, no path
BadRoot == <<Letter, Slash>>

Roots == Hosts \cup {FullName(h, p) : h \in Hosts, p \in Paths} \cup {BadRoot}

RootLists == UNION {[1..n -> Roots] : n \in 0..MaxRoots}

\* strings.HasPrefix
HasPrefix(s, prefix) ==
  Len(prefix) <= Len(s) /\ SubSeq(s, 1, Len(prefix)) = prefix

\* the order of sort.Strings
RECURSIVE lessString(_, _)
lessString(a, b) ==
  IF b = <<>> THEN FALSE
  ELSE IF a = <<>> THEN TRUE
  ELSE IF Head(a) # Head(b) THEN Head(a) < Head(b)
  ELSE lessString(Tail(a), Tail(b))

\* lines 641-647: the keys of reposMap, sorted
RECURSIVE sortedKeys(_)
sortedKeys(S) ==
  IF S = {} THEN <<>>
  ELSE LET m == CHOOSE a \in S : \A b \in S \ {a} : lessString(a, b)
       IN <<m>> \o sortedKeys(S \ {m})

\* lines 532-545: the registry of a root; strings.Split gives one part for a
\* root without slash
RegistryOf(root) ==
  LET slashes == {x \in 1..Len(root) : root[x] = Slash}
  IN IF slashes = {} THEN root ELSE SubSeq(root, 1, Min(slashes) - 1)

\* lines 540-543: gcrname.NewRepository(root, StrictValidation) fails
Unparsable(root) == root = BadRoot

\* lines 584-605 with a prefix test that stops at a path boundary
candidateReposBelow(host, roots) ==
  {FullName(host, p) : p \in {q \in args.catalog[host[1]] :
     \E x \in 1..Len(roots) :
       \/ FullName(host, q) = roots[x]
       \/ HasPrefix(FullName(host, q), roots[x] \o <<Slash>>)}}

\* lines 584-605: the full names of the catalog that have a root as prefix
candidateRepos(host, roots) ==
  {FullName(host, p) : p \in {q \in args.catalog[host[1]] :
     \E x \in 1..Len(roots) : HasPrefix(FullName(host, q), roots[x])}}

ListInit ==
  /\ New(1, 1)
  /\ call = <<NoCall>>
  /\ ncalls = 0
  /\ doRet = <<>>
  /\ \E roots \in RootLists, catalog \in [1..MaxHosts -> SUBSET Paths] :
       args = [roots |-> roots, catalog |-> catalog]
  /\ cl = [pc |-> "roots", registriesMap |-> {}, listed |-> <<>>, results |-> {},
           ret |-> [repos |-> <<>>, err |-> NoErr]]
  /\ sent = {}
  /\ NoServer

ListReturn(repos, err) ==
  [cl EXCEPT !.pc = "returned", !.ret = [repos |-> repos, err |-> err]]

\* lines 529-552: the registries of the roots, each once
ListRegistries ==
  /\ cl.pc = "roots"
  /\ cl' = IF \E x \in 1..Len(args.roots) : Unparsable(args.roots[x])
             THEN ListReturn(<<>>, "parse")
             ELSE [cl EXCEPT !.pc = "catalog",
                     !.registriesMap = {RegistryOf(args.roots[x]) : x \in 1..Len(args.roots)}]
  /\ UNCHANGED <<pool, ncalls, args, sent, svars>>

\* lines 560-606: the task of one registry, in the order the map gives them;
\* gcrremote.Catalog answers or fails
ListCatalog(host, ok) ==
  /\ cl.pc = "catalog"
  /\ host \in cl.registriesMap /\ \A x \in 1..Len(cl.listed) : cl.listed[x] # host
  /\ cl' = [cl EXCEPT !.listed = Append(@, host),
              !.results = @ \cup {IF ok
                THEN [registry |-> host, Value |-> candidateRepos(host, args.roots), Error |-> NoErr]
                ELSE [registry |-> host, Value |-> {}, Error |-> "catalog"]}]
  /\ UNCHANGED <<pool, ncalls, args, sent, svars>>

\* lines 607-614: w.Do or w.Done returns the error of the context
ListCancelled ==
  /\ cl.pc = "catalog"
  /\ cl' = ListReturn(<<>>, "context")
  /\ UNCHANGED <<pool, ncalls, args, sent, svars>>

\* lines 611-648: the results are gathered; any error fails the call
ListGather ==
  /\ cl.pc = "catalog"
  /\ \A h \in cl.registriesMap : \E x \in 1..Len(cl.listed) : cl.listed[x] = h
  /\ cl' = IF \E r \in cl.results : r.Error # NoErr
             THEN ListReturn(<<>>, "errs")
             ELSE ListReturn(sortedKeys(UNION {r.Value : r \in cl.results}), NoErr)
  /\ UNCHANGED <<pool, ncalls, args, sent, svars>>

ListNext ==
  \/ ListRegistries
  \/ \E host \in Hosts, ok \in BOOLEAN : ListCatalog(host, ok)
  \/ ListCancelled
  \/ ListGather

SpecList == ListInit /\ [][ListNext]_vars

(***************************************************************************)
(* The sort and the selection of Clean on their own, lines 219-300: the    *)
(* range over the map tags.Manifests enumerates the digests in any order,  *)
(* sort.Slice sorts the slice, the loop selects.  The manifests carry no   *)
(* tag, so the loop hands nothing to the pool.                             *)
(***************************************************************************)
MaxSorted == 3        \* manifests of the repository

\* the map tags.Manifests: a manifest's digest is its key
Untagged == {info \in Infos : info.Tags = <<>>}
ManifestMaps == UNION {[1..n -> Untagged] : n \in 0..MaxSorted}

\* the orders in which a range can enumerate the keys 1..n
Orders(n) == {o \in [1..n -> 1..n] : \A a, b \in 1..n : a # b => o[a] # o[b]}

\* lines 219-222: the slice the range builds when it enumerates in order o
rangeOver(listing, o) ==
  [k \in 1..Len(listing) |-> [Digest |-> o[k], Info |-> listing[o[k]]]]

SelectionInit ==
  /\ New(1, 1)
  /\ call = <<NoCall>>
  /\ ncalls = 0
  /\ doRet = <<>>
  /\ \E l \in ManifestMaps, s \in Times, k \in 0..MaxKeep :
       args = [ctx |-> "Background", registry |-> "sound", listing |-> l,
               since |-> s, keep |-> k, tagFilter |-> Everything, dryRun |-> FALSE]
  /\ cl = [pc |-> "range", manifests |-> <<>>, mi |-> 0, ti |-> 0,
           keepCount |-> 0, digestsToDelete |-> <<>>]
  /\ sent = {}
  /\ NoServer

\* lines 219-222
SelectionRange ==
  /\ cl.pc = "range"
  /\ \E o \in Orders(Len(args.listing)) :
       cl' = [cl EXCEPT !.pc = "sort", !.manifests = rangeOver(args.listing, o)]
  /\ UNCHANGED <<pool, ncalls, args, sent, svars>>

\* lines 229-240
SelectionSort ==
  /\ cl.pc = "sort"
  /\ cl' = [cl EXCEPT !.pc = "select", !.mi = 1, !.manifests = sortSlice(@)]
  /\ UNCHANGED <<pool, ncalls, args, sent, svars>>

\* lines 266-300, one manifest of the loop
SelectionStep ==
  /\ cl.pc = "select" /\ cl.mi <= Len(cl.manifests)
  /\ cl' = Select(cl.manifests[cl.mi])
  /\ UNCHANGED <<pool, ncalls, args, sent, svars>>

\* the loop is over
SelectionEnd ==
  /\ cl.pc = "select" /\ cl.mi > Len(cl.manifests)
  /\ cl' = [cl EXCEPT !.pc = "selected"]
  /\ UNCHANGED <<pool, ncalls, args, sent, svars>>

SelectionNext ==
  \/ SelectionRange
  \/ SelectionSort
  \/ SelectionStep
  \/ SelectionEnd

SpecSelection == SelectionInit /\ [][SelectionNext]_vars

(***************************************************************************)
(* Server (server.go) with the timerCache (cache.go).  Every request is    *)
(* served by a goroutine of its own; the cleaning a Pub/Sub delivery       *)
(* starts runs in one more.  Cleaner.Clean is taken by its outcome: for a  *)
(* repository it returns a list of references or an error.                 *)
(***************************************************************************)
MaxRequests == 2      \* requests received in all
MaxRepos == 2         \* repositories a payload can name
MaxRefs == 2          \* identifiers (tag names, digests) a repository can hold

\* Payload.Repos as UnmarshalJSON leaves it: sorted, without duplicates
RepoLists == {[k \in 1..n |-> k] : n \in 0..MaxRepos}

\* the patterns tag_filter_any and tag_filter_all of a payload: none, both
\* (which BuildTagFilter refuses) or one that does not compile
FilterPairs ==
  {<<EmptyPattern, EmptyPattern>>, <<Pattern(Tags), Pattern(Tags)>>,
   <<BadPattern, EmptyPattern>>}

\* a body that is no JSON, the empty data, and the payloads that decode
BadPayload ==
  [text |-> "{", any |-> EmptyPattern, all |-> EmptyPattern, repos |-> <<>>,
   recursive |-> FALSE]
NoData == [BadPayload EXCEPT !.text = ""]
\* (the payloads whose patterns BuildTagFilter refuses name one repository:
\* Server.clean returns before it looks at repos)
Payloads ==
  {[text |-> "json", any |-> f[1], all |-> f[2], repos |-> l, recursive |-> rec] :
     f \in {<<EmptyPattern, EmptyPattern>>}, l \in RepoLists, rec \in BOOLEAN}
  \cup
  {[text |-> "json", any |-> f[1], all |-> f[2], repos |-> <<1>>, recursive |-> FALSE] :
     f \in FilterPairs}

\* the requests: Pub/Sub deliveries (an envelope that is no JSON, or one with
\* a key and data) and HTTP requests
Requests ==
  {[kind |-> "pubsub", json |-> FALSE, id |-> 0, data |-> NoData]}
    \cup [kind : {"pubsub"}, json : {TRUE}, id : 1..MaxMessages,
          data : Payloads \cup {BadPayload, NoData}]
    \cup [kind : {"http"}, json : {TRUE}, id : {0}, data : Payloads \cup {BadPayload}]

\* cleanResp, before it is written: Count and Refs
NoBody == [count |-> 0, refs |-> <<>>]

\* a handler that has not answered: status 0; exists is what cache.Insert
\* returned; cancelled, that the client has gone away
Handler(q, pc) ==
  [kind |-> q.kind, json |-> q.json, id |-> q.id, data |-> q.data,
   pc |-> pc, status |-> 0, exists |-> FALSE, body |-> NoBody, cancelled |-> FALSE]

\* a run of Server.clean at its start
NewJob(ctx, body) ==
  [ctx |-> ctx, payload |-> body, pc |-> "decode", repos |-> <<>>, ri |-> 0,
   called |-> <<>>, failed |-> {}, deleted |-> <<>>, status |-> 0, err |-> NoErr]

Answer(r, status) == [reqs EXCEPT ![r].pc = "done", ![r].status = status]

\* a request arrives: HTTPHandler calls s.clean at once (lines 101-103),
\* PubSubHandler decodes the envelope first
Receive(q) ==
  /\ Len(reqs) < MaxRequests
  /\ reqs' = Append(reqs, Handler(q, IF q.kind = "http" THEN "clean" ELSE "decode"))
  /\ jobs' = IF q.kind = "http"
               THEN jobs @@ ((Len(reqs) + 1) :> NewJob("request", q.data))
               ELSE jobs
  /\ UNCHANGED <<cache, expired, tvars>>

\* the client of a request that is not answered goes away: net/http cancels
\* r.Context().  The handlers read the context only to hand it to s.clean, so
\* the step is taken for requests that have started a cleaning.
RequestCancel(r) ==
  /\ r \in DOMAIN jobs
  /\ reqs[r].pc # "done" /\ ~reqs[r].cancelled
  /\ reqs' = [reqs EXCEPT ![r].cancelled = TRUE]
  /\ UNCHANGED <<cache, expired, jobs, tvars>>

\* the context of a run of Server.clean is done: never for
\* context.Background(); for r.Context() once the client has gone away or
\* the handler has returned
CtxDone(j) ==
  jobs[j].ctx = "request" /\ (reqs[j].cancelled \/ reqs[j].pc = "done")

\* PubSubHandler, lines 59-69: the envelope is decoded
PubSubDecode(r) ==
  /\ reqs[r].kind = "pubsub" /\ reqs[r].pc = "decode"
  /\ reqs' = IF reqs[r].json THEN [reqs EXCEPT ![r].pc = "insert"] ELSE Answer(r, 400)
  /\ UNCHANGED <<cache, expired, jobs, tvars>>

\* timerCache.Insert, lines 68-73, under the read lock; found: lines 70-74 of
\* the handler
InsertRead(r) ==
  /\ reqs[r].kind = "pubsub" /\ reqs[r].pc = "insert"
  /\ reqs' = IF reqs[r].id \in cache
               THEN [Answer(r, 204) EXCEPT ![r].exists = TRUE]
               ELSE [reqs EXCEPT ![r].pc = "insertFull"]
  /\ UNCHANGED <<cache, expired, jobs, tvars>>

\* an Insert that adds the key without looking for it again
InsertFullBlind(r) ==
  /\ reqs[r].kind = "pubsub" /\ reqs[r].pc = "insertFull"
  /\ cache' = cache \cup {reqs[r].id}
  /\ timers' = [timers EXCEPT ![reqs[r].id] = @ + 1]
  /\ reqs' = [reqs EXCEPT ![r].pc = "data"]
  /\ UNCHANGED <<expired, jobs, stopCh>>

\* timerCache.Insert, lines 76-88, under the write lock; the key added, a
\* timeout goroutine is started for it (line 86)
InsertFull(r) ==
  /\ reqs[r].kind = "pubsub" /\ reqs[r].pc = "insertFull"
  /\ IF reqs[r].id \in cache
       THEN /\ reqs' = [Answer(r, 204) EXCEPT ![r].exists = TRUE]
            /\ UNCHANGED <<cache, timers>>
       ELSE /\ reqs' = [reqs EXCEPT ![r].pc = "data"]
            /\ cache' = cache \cup {reqs[r].id}
            /\ timers' = [timers EXCEPT ![reqs[r].id] = @ + 1]
  /\ UNCHANGED <<expired, jobs, stopCh>>

\* a timeout that ends without the delete
CacheExpireKeeps(k) ==
  /\ timers[k] > 0
  /\ expired' = expired \cup {k}
  /\ timers' = [timers EXCEPT ![k] = @ - 1]
  /\ UNCHANGED <<cache, reqs, jobs, stopCh>>

\* timerCache.timeout, lines 91-96: the lifetime of a key is over; the select
\* can take this case also when stopCh is closed
CacheExpire(k) ==
  /\ timers[k] > 0
  /\ cache' = cache \ {k}
  /\ expired' = expired \cup {k}
  /\ timers' = [timers EXCEPT ![k] = @ - 1]
  /\ UNCHANGED <<reqs, jobs, stopCh>>

\* timerCache.timeout, line 97: stopCh is closed, the goroutine ends
TimeoutStopped(k) ==
  /\ stopCh = "closed" /\ timers[k] > 0
  /\ timers' = [timers EXCEPT ![k] = @ - 1]
  /\ UNCHANGED <<cache, expired, reqs, jobs, stopCh>>

\* timerCache.Stop, lines 55-62: closes stopCh unless it is closed
Stop ==
  /\ stopCh' = "closed"
  /\ UNCHANGED <<cache, expired, reqs, jobs, timers>>

\* a handler that hands the context of the request to the goroutine
PubSubStartRequestCtx(r) ==
  /\ reqs[r].kind = "pubsub" /\ reqs[r].pc = "data"
  /\ IF reqs[r].data.text = ""
       THEN /\ reqs' = Answer(r, 400)
            /\ jobs' = jobs
       ELSE /\ reqs' = [reqs EXCEPT ![r].pc = "ack"]
            /\ jobs' = jobs @@ (r :> NewJob("request", reqs[r].data))
  /\ UNCHANGED <<cache, expired, tvars>>

\* PubSubHandler, lines 76-91: without data 400, else the goroutine is started
PubSubStart(r) ==
  /\ reqs[r].kind = "pubsub" /\ reqs[r].pc = "data"
  /\ IF reqs[r].data.text = ""
       THEN /\ reqs' = Answer(r, 400)
            /\ jobs' = jobs
       ELSE /\ reqs' = [reqs EXCEPT ![r].pc = "ack"]
            /\ jobs' = jobs @@ (r :> NewJob("Background", reqs[r].data))
  /\ UNCHANGED <<cache, expired, tvars>>

\* a handler that answers once the cleaning is over, with its status
PubSubAckWaits(r) ==
  /\ reqs[r].kind = "pubsub" /\ reqs[r].pc = "ack"
  /\ jobs[r].pc = "done"
  /\ reqs' = Answer(r, IF jobs[r].err = NoErr THEN 204 ELSE jobs[r].status)
  /\ UNCHANGED <<cache, expired, jobs, tvars>>

\* PubSubHandler, line 93
PubSubAck(r) ==
  /\ reqs[r].kind = "pubsub" /\ reqs[r].pc = "ack"
  /\ reqs' = Answer(r, 204)
  /\ UNCHANGED <<cache, expired, jobs, tvars>>

\* Server.clean returns (nil, status, err)
Fail(j, status, err) == [jobs EXCEPT ![j].pc = "done", ![j].status = status, ![j].err = err]

\* Server.clean, lines 134-181: the payload is decoded, the filter built, the
\* repositories gathered (ListChildRepositories can fail)
CleanPayload(j) ==
  /\ jobs[j].pc = "decode"
  /\ LET p == jobs[j].payload IN
       \/ /\ p.text # "json"
          /\ jobs' = Fail(j, 500, "decode")
       \/ /\ p.text = "json"
          /\ BuildTagFilter(EmptyPattern, p.any, p.all).err # NoErr
          /\ jobs' = Fail(j, 400, "filter")
       \/ /\ p.text = "json"
          /\ BuildTagFilter(EmptyPattern, p.any, p.all).err = NoErr
          /\ \/ jobs' = [jobs EXCEPT ![j].pc = "repos", ![j].repos = p.repos, ![j].ri = 1]
             \/ /\ p.recursive
                /\ jobs' = Fail(j, 400, IF CtxDone(j) THEN "context" ELSE "list")
  /\ UNCHANGED <<cache, expired, reqs, tvars>>

\* what Cleaner.Clean can return for a repository: an error, or the sorted
\* identifiers of what it deleted (here at most one); Identifier() of a tag or of a digest does
\* not hold the repository, so two repositories can return the same one
CleanOutcomes(repo) ==
  {[refs |-> Ascending(S), err |-> NoErr] :
     S \in {T \in SUBSET (1..MaxRefs) : Cardinality(T) <= 1}}
    \cup {[refs |-> <<>>, err |-> "clean"]}

\* Server.clean, lines 185-197: one repository of the loop
CleanRepo(j) ==
  /\ jobs[j].pc = "repos" /\ jobs[j].ri <= Len(jobs[j].repos)
  /\ \E out \in IF CtxDone(j) THEN {[refs |-> <<>>, err |-> "context"]}
                             ELSE CleanOutcomes(jobs[j].repos[jobs[j].ri]) :
       LET repo == jobs[j].repos[jobs[j].ri]
           invoked == [jobs EXCEPT ![j].called = Append(@, repo)]
       IN jobs' = IF out.err # NoErr
                    THEN [Fail(j, 400, out.err) EXCEPT
                            ![j].called = Append(@, repo), ![j].failed = @ \cup {repo}]
                    ELSE [invoked EXCEPT ![j].ri = @ + 1,
                            ![j].deleted = IF Len(out.refs) > 0
                                             THEN @ @@ (repo :> out.refs) ELSE @]
  /\ UNCHANGED <<cache, expired, reqs, tvars>>

\* Server.clean, lines 199-201
CleanReturn(j) ==
  /\ jobs[j].pc = "repos" /\ jobs[j].ri > Len(jobs[j].repos)
  /\ jobs' = [jobs EXCEPT ![j].pc = "done", ![j].status = 200]
  /\ UNCHANGED <<cache, expired, reqs, tvars>>

\* HTTPHandler, lines 109-113: the lists of the map one after the other
RECURSIVE flatten(_, _)
flatten(deleted, keys) ==
  IF keys = {} THEN <<>>
  ELSE deleted[Min(keys)] \o flatten(deleted, keys \ {Min(keys)})

\* HTTPHandler, lines 109-119
cleanResp(deleted) ==
  [count |-> Cardinality(DOMAIN deleted),
   refs |-> sortStrings(flatten(deleted, DOMAIN deleted))]

\* HTTPHandler, lines 104-128: the error with the status of s.clean, or 200
HTTPRespond(r) ==
  /\ reqs[r].kind = "http" /\ reqs[r].pc = "clean"
  /\ jobs[r].pc = "done"
  /\ reqs' = IF jobs[r].err # NoErr
               THEN Answer(r, jobs[r].status)
               ELSE [Answer(r, 200) EXCEPT ![r].body = cleanResp(jobs[r].deleted)]
  /\ UNCHANGED <<cache, expired, jobs, tvars>>

ServerInit ==
  /\ New(1, 1)
  /\ call = <<NoCall>>
  /\ ncalls = 0
  /\ doRet = <<>>
  /\ NoClean
  /\ NoServer

\* the pool and Clean, which the server's steps leave alone
rest == <<pool, ncalls, args, cl, sent>>

ServerNext ==
  \/ \E q \in Requests : Receive(q) /\ UNCHANGED rest
  \/ \E r \in DOMAIN reqs : RequestCancel(r) /\ UNCHANGED rest
  \/ \E r \in DOMAIN reqs : PubSubDecode(r) /\ UNCHANGED rest
  \/ \E r \in DOMAIN reqs : InsertRead(r) /\ UNCHANGED rest
  \/ \E r \in DOMAIN reqs : InsertFull(r) /\ UNCHANGED rest
  \/ \E k \in 1..MaxMessages : CacheExpire(k) /\ UNCHANGED rest
  \/ \E r \in DOMAIN reqs : PubSubStart(r) /\ UNCHANGED rest
  \/ \E r \in DOMAIN reqs : PubSubAck(r) /\ UNCHANGED rest
  \/ \E j \in DOMAIN jobs : CleanPayload(j) /\ UNCHANGED rest
  \/ \E j \in DOMAIN jobs : CleanRepo(j) /\ UNCHANGED rest
  \/ \E j \in DOMAIN jobs : CleanReturn(j) /\ UNCHANGED rest
  \/ \E r \in DOMAIN reqs : HTTPRespond(r) /\ UNCHANGED rest

SpecServer == ServerInit /\ [][ServerNext]_vars

(***************************************************************************)
(* The timerCache on its own: goroutines call Insert, Stop is called at any *)
(* moment and any number of times, a timeout ends when its lifetime is     *)
(* over or when stopCh is closed.                                          *)
(***************************************************************************)
MaxInserts == 3       \* calls of Insert in all

\* a goroutine calls Insert(k): a delivery with key k, at the call
InsertCall(k) ==
  /\ Len(reqs) < MaxInserts
  /\ reqs' = Append(reqs, Handler([kind |-> "pubsub", json |-> TRUE, id |-> k,
                                   data |-> NoData], "insert"))
  /\ UNCHANGED <<cache, expired, jobs, tvars>>

CacheInit ==
  /\ New(1, 1)
  /\ call = <<NoCall>>
  /\ ncalls = 0
  /\ doRet = <<>>
  /\ NoClean
  /\ NoServer

CacheNext ==
  \/ \E k \in 1..MaxMessages : InsertCall(k) /\ UNCHANGED rest
  \/ \E r \in DOMAIN reqs : InsertRead(r) /\ UNCHANGED rest
  \/ \E r \in DOMAIN reqs : InsertFull(r) /\ UNCHANGED rest
  \/ \E k \in 1..MaxMessages : CacheExpire(k) /\ UNCHANGED rest
  \/ \E k \in 1..MaxMessages : TimeoutStopped(k) /\ UNCHANGED rest
  \/ Stop /\ UNCHANGED rest

SpecCache == CacheInit /\ [][CacheNext]_vars

\* a closed channel is ready in the select of every timeout goroutine; the
\* lifetime can be as long as one likes
SpecCacheFair ==
  SpecCache /\ \A k \in 1..MaxMessages : WF_vars(TimeoutStopped(k) /\ UNCHANGED rest)

(***************************************************************************)
(* Properties of Clean.                                                    *)
(***************************************************************************)
\* the work functions Clean has handed to the pool so far
Issued ==
  {tasks[k].fn : k \in DOMAIN tasks}
    \cup (IF call[Main].op = "Do" THEN {call[Main].fn} ELSE {})

\* the manifest an identifier of the result names: the digest itself, or the
\* manifest that carries the tag
ManifestOf(id) ==
  IF id % 2 = 1 THEN (id + 1) \div 2
  ELSE CHOOSE d \in 1..Len(args.listing) :
         \E x \in 1..Len(args.listing[d].Tags) : args.listing[d].Tags[x] = id \div 2

Reported == {ManifestOf(cl.ret.deleted[x]) : x \in 1..Len(cl.ret.deleted)}

\* C1: no deletion of a manifest's digest starts before the deletion of each of
\* its tags has returned, whatever the interleaving and the concurrency.
C1_TagsBeforeDigest ==
  \A k \in DOMAIN tasks :
    (tasks[k].fn.kind = "digest" /\ tasks[k].st # "spawned") =>
      LET ts == args.listing[tasks[k].fn.digest].Tags
      IN \A x \in 1..Len(ts) :
           \E j \in DOMAIN tasks :
             /\ tasks[j].fn = TagFn(tasks[k].fn.digest, ts[x])
             /\ tasks[j].st \in {"ran", "appended", "exited"}

\* the deletion of the digest of a manifest of two tags is in flight, on a pool
\* that runs tasks side by side
C1_Witness ==
  /\ ~args.dryRun /\ size > 1
  /\ \E k \in DOMAIN tasks :
       /\ tasks[k].fn.kind = "digest" /\ tasks[k].st = "running"
       /\ Len(args.listing[tasks[k].fn.digest].Tags) > 1

\* C2: whatever the policy, Clean hands no deletion of a tag or of the digest
\* of a manifest uploaded after since to the pool, and reports no tag or
\* digest of such a manifest as deleted.
C2_Grace ==
  /\ \A fn \in Issued : ~(args.listing[fn.digest].Uploaded > args.since)
  /\ \A d \in Reported : ~(args.listing[d].Uploaded > args.since)

\* Clean returned a list of deletions, keep being 0, from a repository with an
\* untagged manifest uploaded after since
C2_Witness ==
  /\ cl.pc = "returned" /\ cl.ret.deleted # <<>> /\ args.keep = 0
  /\ \E d \in 1..Len(args.listing) :
       args.listing[d].Uploaded > args.since /\ args.listing[d].Tags = <<>>

\* the deletion candidates, in the order of the sorted slice
Candidates ==
  SelectSeq(cl.manifests, LAMBDA m : shouldDelete(m, args.since, args.tagFilter))

\* the loop over the sorted slice has passed every manifest
SelectionOver == cl.pc # "list" /\ cl.mi > Len(cl.manifests)

\* C3: with c candidates, the selection protects the first min(keep, c) of them
\* in the sorted order and notes the others for deletion, manifests that are
\* not candidates leaving the keep count alone; no deletion is ever handed
\* to the pool for a protected candidate or for a manifest that is no candidate.
C3_Keep ==
  LET c == Len(Candidates)
      kept == IF args.keep < c THEN args.keep ELSE c
  IN /\ \A j \in 1..(Len(cl.manifests) - 1) : ~less(cl.manifests[j + 1], cl.manifests[j])
     /\ \A fn \in Issued : \E x \in (kept + 1)..c : Candidates[x].Digest = fn.digest
     /\ SelectionOver =>
          /\ cl.keepCount = kept
          /\ cl.digestsToDelete = [x \in 1..(c - kept) |-> Candidates[kept + x].Digest]
          /\ (args.keep >= c => cl.digestsToDelete = <<>> /\ tasks = <<>>)

\* keep is 1 and Clean returned; the fresher manifest was no candidate, the
\* other one was and is the one protected
C3_Witness ==
  /\ cl.pc = "returned" /\ args.keep = 1 /\ Len(cl.manifests) = 2
  /\ ~shouldDelete(cl.manifests[1], args.since, args.tagFilter)
  /\ shouldDelete(cl.manifests[2], args.since, args.tagFilter)
  /\ cl.keepCount = 1 /\ cl.digestsToDelete = <<>>

C5_NullFilter ==
  args.tagFilter = BuildTagFilter(EmptyPattern, EmptyPattern, EmptyPattern).filter =>
    /\ \A fn \in Issued : fn.kind = "digest" /\ args.listing[fn.digest].Tags = <<>>
    /\ \A x \in 1..Len(cl.ret.deleted) :
         /\ cl.ret.deleted[x] % 2 = 1
         /\ args.listing[ManifestOf(cl.ret.deleted[x])].Tags = <<>>

\* no pattern was given and Clean returned a list of deletions, keep being 0,
\* from a repository with a tagged manifest not uploaded after since
C5_Witness ==
  /\ args.tagFilter.type = "Null" /\ args.keep = 0
  /\ cl.pc = "returned" /\ cl.ret.deleted # <<>>
  /\ \E d \in 1..Len(args.listing) :
       args.listing[d].Tags # <<>> /\ args.listing[d].Uploaded <= args.since

\* the work function of task k has returned
Finished(k) == tasks[k].st \in {"ran", "appended", "exited"}

\* the deletion of a digest by task k was answered with the dangling-parent
\* error: the work function returned ("", nil)
Dangling(k) ==
  /\ tasks[k].fn.kind = "digest" /\ Finished(k)
  /\ tasks[k].out = [Value |-> 0, Error |-> NilErr]

\* task k deleted its reference (or, with dryRun, reports it)
Succeeded(k) == Finished(k) /\ tasks[k].out.Error = NilErr /\ tasks[k].out.Value # 0

\* task k failed
Failed(k) == Finished(k) /\ tasks[k].out.Error # NilErr

\* Clean came to the end of w.Done, which returned the results
Gathered == cl.pc = "returned" /\ call[Main].op = "Done" /\ call[Main].err = NoErr

\* C11: a dangling-parent answer is no error and the digest is tried again in
\* the next pass, of which there are at most 3, so no digest gets more than 4
\* delete calls; a later attempt follows a dangling-parent answer to the
\* attempt before it and the end of every task of the earlier passes; when
\* the digest is deleted in a later pass and nothing failed, Clean returns it
\* in its list, with no error.
C11_Retry ==
  /\ \A k \in DOMAIN tasks :
       /\ tasks[k].fn.pass \in 0..MaxRetries
       /\ \A j \in DOMAIN tasks : j # k => tasks[j].fn # tasks[k].fn
       /\ Dangling(k) => tasks[k].out.Error = NilErr
  /\ \A fn \in Issued :
       (fn.kind = "digest" /\ fn.pass > 0) =>
         /\ \E j \in DOMAIN tasks :
              tasks[j].fn = DigestFn(fn.digest, fn.pass - 1) /\ Dangling(j)
         /\ \A j \in DOMAIN tasks : tasks[j].fn.pass < fn.pass => tasks[j].st = "exited"
  /\ Gathered =>
       /\ \A k \in DOMAIN tasks :
            (Dangling(k) /\ tasks[k].fn.pass < MaxRetries) =>
              \E j \in DOMAIN tasks :
                tasks[j].fn = DigestFn(tasks[k].fn.digest, tasks[k].fn.pass + 1)
       /\ (cl.ret.err = NoErr) = (\A k \in DOMAIN tasks : ~Failed(k))
       /\ cl.ret.err = NoErr =>
            \A k \in DOMAIN tasks :
              Succeeded(k) => \E x \in 1..Len(cl.ret.deleted) :
                                cl.ret.deleted[x] = Identifier(tasks[k].fn)

\* Clean returned without error a list with a digest whose deletion was
\* answered dangling parent three times and succeeded in the last pass
C11_Witness ==
  /\ Gathered /\ cl.ret.err = NoErr
  /\ \E k \in DOMAIN tasks :
       /\ tasks[k].fn.kind = "digest" /\ tasks[k].fn.pass = MaxRetries /\ Succeeded(k)
       /\ \E x \in 1..Len(cl.ret.deleted) : cl.ret.deleted[x] = Identifier(tasks[k].fn)

\* C12: when the deletion of a digest is still answered dangling parent in the
\* last retry pass, Clean returns an error that names the digest.
C12_ExhaustionReported ==
  \A k \in DOMAIN tasks :
    (Gathered /\ Dangling(k) /\ tasks[k].fn.pass = MaxRetries) =>
      /\ cl.ret.err # NoErr
      /\ \E x \in 1..Len(cl.ret.errs) :
           cl.ret.errs[x].ref = DigestIdentifier(tasks[k].fn.digest)

\* C13: once the deletion of a digest has failed with an error other than
\* dangling parent, no task that deletes a digest and starts afterwards sends
\* a delete to the registry.
C13_FirstErrorGuard ==
  [][\A fn \in sent' \ sent :
       fn.kind = "digest" =>
         ~\E k \in DOMAIN tasks : tasks[k].fn.kind = "digest" /\ Failed(k)]_vars

\* the sorted slice, the candidates and the manifests to delete, from the
\* listing and the policy alone
SortedListing ==
  sortSlice([k \in 1..Len(args.listing) |-> [Digest |-> k, Info |-> args.listing[k]]])

ToDelete ==
  LET cs == SelectSeq(SortedListing, LAMBDA m : shouldDelete(m, args.since, args.tagFilter))
  IN {cs[x] : x \in (args.keep + 1)..Len(cs)}

\* the identifiers of the tags and of the digests of the manifests to delete
ExpectedIdentifiers ==
  {DigestIdentifier(m.Digest) : m \in ToDelete}
    \cup UNION {{TagIdentifier(m.Info.Tags[x]) : x \in 1..Len(m.Info.Tags)} : m \in ToDelete}

\* C14: with dryRun nothing is sent to the registry and no retry pass is made;
\* the list a dry run returns and the list a run without dryRun returns when
\* every delete succeeds are the same function of the listing and the policy.
C14_DryRun ==
  /\ args.dryRun =>
       /\ sent = {}
       /\ cl.attempt = 0 /\ cl.pc \notin {"retryDo", "retryRet", "wait3"}
       /\ \A k \in DOMAIN tasks : tasks[k].fn.pass = 0
  /\ (Gathered /\ (args.dryRun \/ \A k \in DOMAIN tasks : Succeeded(k))) =>
       /\ cl.ret.err = NoErr
       /\ cl.ret.deleted = Ascending(ExpectedIdentifiers)

\* a dry run returned the tags and the digest of a manifest of two tags
C14_Witness ==
  /\ args.dryRun /\ Gathered /\ Len(cl.ret.deleted) > 2
  /\ \E m \in ToDelete : Len(m.Info.Tags) > 1

\* C15: the list Clean returns without error is in strictly ascending order:
\* sorted, and with no identifier twice, retry passes included.
C15_SortedNoDuplicates ==
  (cl.pc = "returned" /\ cl.ret.err = NoErr) =>
    \A x, y \in 1..Len(cl.ret.deleted) : x < y => cl.ret.deleted[x] < cl.ret.deleted[y]

\* Clean returned without error a list of several identifiers that the results
\* held in another order, one of them of a digest deleted in a retry pass
C15_Witness ==
  /\ Gathered /\ cl.ret.err = NoErr /\ Len(cl.ret.deleted) > 1
  /\ gatherDeleted(call[Main].final) # cl.ret.deleted
  /\ \E k \in DOMAIN tasks : tasks[k].fn.pass > 0 /\ Succeeded(k)

\* the tasks handed to the pool for the deletion of tag t of manifest d
TagTasks(d, t) == {k \in DOMAIN tasks : tasks[k].fn = TagFn(d, t)}

\* the identifiers Clean returned
Deleted == {cl.ret.deleted[x] : x \in 1..Len(cl.ret.deleted)}

\* C26: for a manifest noted for deletion, one deletion task is handed to the
\* pool for each of its tags, whether the filter matches the tag or not, and
\* then one for its digest; when Clean returns without error, the digest
\* having been deleted, the tags and the digest are in the list.
C26_AllTags ==
  /\ \A d \in 1..Len(args.listing) :
       \A x \in 1..Len(args.listing[d].Tags) :
         Cardinality(TagTasks(d, args.listing[d].Tags[x])) <= 1
  /\ \A k \in DOMAIN tasks :
       tasks[k].fn.kind = "digest" =>
         LET d == tasks[k].fn.digest
             ts == args.listing[d].Tags
         IN /\ \E x \in 1..Len(cl.digestsToDelete) : cl.digestsToDelete[x] = d
            /\ \A x \in 1..Len(ts) : Cardinality(TagTasks(d, ts[x])) = 1
            /\ (Gathered /\ cl.ret.err = NoErr /\ Succeeded(k)) =>
                 /\ DigestIdentifier(d) \in Deleted
                 /\ \A x \in 1..Len(ts) : TagIdentifier(ts[x]) \in Deleted
  /\ (Gathered /\ cl.ret.err = NoErr) =>
       \A x \in 1..Len(cl.digestsToDelete) :
         \E k \in DOMAIN tasks : tasks[k].fn = DigestFn(cl.digestsToDelete[x], 0)

\* Clean deleted a manifest of two tags under an Any filter that matches one
\* of them, and returned both tags and the digest
C26_Witness ==
  /\ Gathered /\ cl.ret.err = NoErr /\ ~args.dryRun
  /\ args.tagFilter.type = "Any"
  /\ \E d \in 1..Len(args.listing) :
       LET ts == args.listing[d].Tags
       IN /\ Len(ts) = 2
          /\ \E x \in 1..2 : ~MatchString(args.tagFilter.re, ts[x])
          /\ {DigestIdentifier(d), TagIdentifier(ts[1]), TagIdentifier(ts[2])} \subseteq Deleted

\* C33: Clean hands the deletion of a digest to the pool only when the
\* deletion of every tag of that manifest succeeded; with a tag deletion that
\* failed, no deletion of the digest is handed over or attempted.
C33_NoDigestAfterFailedTag ==
  \A fn \in Issued :
    fn.kind = "digest" =>
      \A k \in DOMAIN tasks :
        (tasks[k].fn.kind = "tag" /\ tasks[k].fn.digest = fn.digest) => ~Failed(k)

C39_NothingInFlight ==
  cl.pc = "returned" => \A k \in DOMAIN tasks : Finished(k)

(***************************************************************************)
(* Properties of ListChildRepositories.                                    *)
(***************************************************************************)
\* ListChildRepositories returned a list and no error
Listed == cl.pc = "returned" /\ cl.ret.err = NoErr

\* the names of the list returned
ReturnedRepos == {cl.ret.repos[x] : x \in 1..Len(cl.ret.repos)}

\* the first characters of name are those of root
StartsWith(name, root) ==
  Len(root) <= Len(name) /\ \A x \in 1..Len(root) : name[x] = root[x]

\* the hosts that are the registry of a root
RootHosts ==
  {h \in Hosts : \E x \in 1..Len(args.roots) :
     args.roots[x] = h \/ StartsWith(args.roots[x], h \o <<Slash>>)}

C28_RootsIncluded ==
  Listed =>
    \A x \in 1..Len(args.roots) :
      (\E y \in 1..Len(args.roots[x]) : args.roots[x][y] = Slash) =>
        args.roots[x] \in ReturnedRepos

\* C29: every name of a list returned without error is a root or lies below
\* a root: the root, a slash, and more.
C29_OnlyBelowRoots ==
  Listed =>
    \A n \in ReturnedRepos :
      \E x \in 1..Len(args.roots) :
        n = args.roots[x] \/ StartsWith(n, args.roots[x] \o <<Slash>>)

(***************************************************************************)
(* Properties of the server.                                               *)
(***************************************************************************)
\* the Pub/Sub deliveries of key k
Deliveries(k) == {r \in DOMAIN reqs : reqs[r].kind = "pubsub" /\ reqs[r].json /\ reqs[r].id = k}

\* C16: when Clean fails for a repository, Server.clean records the failure
\* for it and still calls Clean for every other repository of the request.
C16_AllReposCleaned ==
  \A j \in DOMAIN jobs :
    (jobs[j].pc = "done" /\ jobs[j].failed # {}) => jobs[j].called = jobs[j].repos

\* C17: of the deliveries of one key through the cache, as long as no timeout
\* has removed the key, at most one starts a cleaning; a delivery for which
\* Insert finds the key answers 204 and starts none.
C17_AtMostOnce ==
  /\ \A k \in 1..MaxMessages :
       k \notin expired => Cardinality(Deliveries(k) \cap DOMAIN jobs) <= 1
  /\ \A r \in DOMAIN reqs :
       reqs[r].exists => reqs[r].status = 204 /\ r \notin DOMAIN jobs

\* two deliveries of one key, both with data, have been answered, the key
\* never expired: one cleaning was started and the other delivery found the key
C17_Witness ==
  \E k \in 1..MaxMessages :
    /\ k \notin expired
    /\ Cardinality(Deliveries(k)) = 2
    /\ \A r \in Deliveries(k) : reqs[r].pc = "done" /\ reqs[r].data.text = "json"
    /\ Cardinality(Deliveries(k) \cap DOMAIN jobs) = 1
    /\ \E r \in Deliveries(k) : reqs[r].exists

\* C18: a delivery whose envelope decodes and holds data is answered 204,
\* whatever becomes of the cleaning it starts, and is answered without the
\* cleaning being over.
C18_AlwaysAck ==
  /\ [](\A r \in DOMAIN reqs : reqs[r].pc = "ack" => ENABLED PubSubAck(r))
  /\ [][\A r \in DOMAIN reqs :
          (/\ reqs[r].kind = "pubsub" /\ reqs[r].json /\ reqs[r].data.text # ""
           /\ reqs[r].pc # "done" /\ reqs'[r].pc = "done")
            => /\ reqs'[r].status = 204
               /\ r \in DOMAIN jobs => jobs'[r].pc = jobs[r].pc]_vars

\* a delivery has been answered 204 and the cleaning it started has failed;
\* another has been answered 204 and its cleaning has not yet begun
C18_Witness ==
  /\ \E r \in DOMAIN reqs :
       /\ reqs[r].kind = "pubsub" /\ reqs[r].pc = "done" /\ reqs[r].status = 204
       /\ r \in DOMAIN jobs /\ jobs[r].pc = "done" /\ jobs[r].err # NoErr
  /\ \E r \in DOMAIN reqs :
       /\ reqs[r].kind = "pubsub" /\ reqs[r].pc = "done" /\ reqs[r].status = 204
       /\ r \in DOMAIN jobs /\ jobs[r].pc = "decode"

\* C19: a delivery whose envelope does not decode or holds no data is
\* answered 400 and starts no cleaning, the first time and every other time.
C19_Malformed400 ==
  \A r \in DOMAIN reqs :
    (reqs[r].kind = "pubsub" /\ reqs[r].pc = "done"
       /\ (~reqs[r].json \/ reqs[r].data.text = "")) =>
      reqs[r].status = 400 /\ r \notin DOMAIN jobs

\* C20: an HTTP request whose body is no JSON payload is answered 400 and
\* Clean is not called.
C20_BadBody400 ==
  \A r \in DOMAIN reqs :
    (reqs[r].kind = "http" /\ reqs[r].pc = "done" /\ reqs[r].data.text # "json") =>
      reqs[r].status = 400 /\ jobs[r].called = <<>>

\* C21: a payload whose repos list is empty once trimmed and without
\* duplicates is refused by Server.clean with status 400.
C21_EmptyRepos400 ==
  \A j \in DOMAIN jobs :
    (jobs[j].pc = "done" /\ jobs[j].payload.text = "json"
       /\ jobs[j].payload.repos = <<>>) =>
      jobs[j].status = 400 /\ jobs[j].err # NoErr

\* C22: in a successful HTTP response count is the number of repositories
\* with a deletion, and refs holds the deletions of all of them, sorted and
\* without duplicates.
C22_Response ==
  \A r \in DOMAIN reqs :
    (reqs[r].kind = "http" /\ reqs[r].pc = "done" /\ reqs[r].status = 200) =>
      LET d == jobs[r].deleted
          refs == reqs[r].body.refs
      IN /\ reqs[r].body.count = Cardinality({k \in DOMAIN d : d[k] # <<>>})
         /\ {refs[x] : x \in 1..Len(refs)} =
              UNION {{d[k][x] : x \in 1..Len(d[k])} : k \in DOMAIN d}
         /\ \A x, y \in 1..Len(refs) : x < y => refs[x] < refs[y]

\* C30: the context of a cleaning that a Pub/Sub delivery started is never
\* done, whether the client has gone away or the handler has returned: the
\* cleaning never fails on its context and, until it is over, its next step
\* can be taken.
C30_Detached ==
  \A r \in DOMAIN jobs :
    reqs[r].kind = "pubsub" =>
      /\ jobs[r].ctx = "Background" /\ ~CtxDone(r)
      /\ jobs[r].err # "context"
      /\ jobs[r].pc # "done" =>
           ENABLED (CleanPayload(r) \/ CleanRepo(r) \/ CleanReturn(r))

\* the client of a delivery went away and the handler has answered; the
\* cleaning is in its loop, has cleaned a repository and goes on
C30_Witness ==
  \E r \in DOMAIN jobs :
    /\ reqs[r].kind = "pubsub" /\ reqs[r].pc = "done" /\ reqs[r].cancelled
    /\ jobs[r].pc = "repos" /\ jobs[r].called # <<>> /\ jobs[r].ri <= Len(jobs[r].repos)
    /\ ENABLED CleanRepo(r)

(***************************************************************************)
(* Properties of the timerCache.                                           *)
(***************************************************************************)
\* the calls of Insert(k) that have returned
InsertReturned(k) ==
  {r \in DOMAIN reqs : reqs[r].id = k /\ reqs[r].pc \in {"data", "done"}}

C32_Lifecycle ==
  /\ [](\A k \in 1..MaxMessages :
          /\ timers[k] <= 1
          /\ stopCh = "open" => (k \in cache <=> timers[k] = 1))
  /\ [][\A k \in 1..MaxMessages :
          (timers'[k] < timers[k] /\ stopCh = "open") => k \in cache /\ k \notin cache']_vars
  /\ [][stopCh = "closed" => stopCh' = "closed"]_vars
  /\ (stopCh = "closed") ~> (\A k \in 1..MaxMessages : timers[k] = 0)

\* a key was removed by its timeout and inserted again; Stop was then called
\* and the timeout of the second insertion is still pending
C32_Witness ==
  \E k \in 1..MaxMessages :
    /\ k \in expired /\ k \in cache /\ timers[k] = 1 /\ stopCh = "closed"
    /\ Cardinality({r \in InsertReturned(k) : ~reqs[r].exists}) = 2

(***************************************************************************)
(* Properties of the tag filters.                                          *)
(***************************************************************************)
\* the patterns of the call compile
Compiles == \A p \in {args.first, args.any, args.all} : Compile(p).err = NoErr

\* the patterns of the call that are not the empty string
Given == {n \in {"first", "any", "all"} : args[n].text # ""}

Matching == {k \in 1..Len(args.tags) : args.tags[k] \in args.filter.re}

\* C25: Null.Matches is false for every list; Any(r).Matches is true exactly
\* when some tag matches r; All(r).Matches is true exactly when no tag fails
\* to match r, so it is true for the empty list; an Any or All filter without
\* a compiled expression answers false for every list.
C25_Matches ==
  cl.pc = "returned" =>
    LET f == args.filter
    IN /\ f.type = "Null" => cl.ret = FALSE
       /\ (f.type \in {"Any", "All"} /\ f.re = NoRegexp) => cl.ret = FALSE
       /\ (f.type = "Any" /\ f.re # NoRegexp) => (cl.ret <=> Matching # {})
       /\ (f.type = "All" /\ f.re # NoRegexp) =>
            (cl.ret <=> Matching = 1..Len(args.tags))

\* an All filter over a compiled expression answered true for the empty list
C25_Witness ==
  /\ cl.pc = "returned" /\ cl.ret = TRUE
  /\ args.filter.type = "All" /\ args.filter.re # NoRegexp /\ args.tags = <<>>

(***************************************************************************)
(* Properties of the sort and the selection.                               *)
(***************************************************************************)
\* the manifests of the slice
Sorted == {cl.manifests[k] : k \in 1..Len(cl.manifests)}

\* C34: the comparison of the sort is irreflexive, asymmetric and transitive
\* on the manifests of every repository, those that mix creation times
\* before dockerExistence with later ones included.
C34_StrictOrder ==
  \A a \in Sorted :
    /\ ~less(a, a)
    /\ \A b \in Sorted :
         /\ less(a, b) => ~less(b, a)
         /\ \A c \in Sorted : (less(a, b) /\ less(b, c)) => less(a, c)

\* lines 266-300 as a whole: the digests the loop notes for deletion from
\* position k of the slice on, kept being the keep count so far
RECURSIVE selected(_, _, _)
selected(ms, k, kept) ==
  IF k > Len(ms) THEN {}
  ELSE IF ~shouldDelete(ms[k], args.since, args.tagFilter) THEN selected(ms, k + 1, kept)
  ELSE IF kept < args.keep THEN selected(ms, k + 1, kept + 1)
  ELSE {ms[k].Digest} \cup selected(ms, k + 1, kept)

\* C40: the set of digests the loop has noted for deletion is the one it notes
\* when the range enumerates the map in the order of the digests, whatever the
\* order the range did enumerate it in.
C40_Deterministic ==
  cl.pc = "selected" =>
    {cl.digestsToDelete[x] : x \in 1..Len(cl.digestsToDelete)}
      = selected(sortSlice(rangeOver(args.listing, [k \in 1..Len(args.listing) |-> k])), 1, 0)

(***************************************************************************)
(* Properties of ErrsToError.                                              *)
(***************************************************************************)
\* C23: ErrsToError gives nil for the empty list, the error itself for a list
\* of one, and for a longer list a composite whose bullet lines are the
\* messages without duplicates, in ascending order.
C23_ErrsToError ==
  cl.pc = "returned" =>
    LET errs == args.errs
    IN CASE Len(errs) = 0 -> cl.ret = NoErr
         [] Len(errs) = 1 -> cl.ret = errs[1]
         [] OTHER -> cl.ret.text[2] = Ascending({errs[x].text : x \in 1..Len(errs)})

(***************************************************************************)
(* Properties of the worker pool.                                          *)
(***************************************************************************)
DoneOk(c) == call[c].op = "Done" /\ call[c].pc = "done" /\ call[c].err = NoErr
WaitOk(c) == call[c].op = "Wait" /\ call[c].pc = "done" /\ call[c].err = NoErr
Recorded(k) == tasks[k].st \in {"appended", "exited"}
InFlight == {k \in DOMAIN tasks : ~Recorded(k)}
DoNil == {f \in DOMAIN doRet : doRet[f] = NoErr}

\* C6: the vector a successful Done returns holds, at position k, what the work
\* function of the task with index k-1 (the k-th accepted Do) produced, whatever
\* the order in which the tasks completed; it has a slot for every index handed
\* out, none of them nil, and building it never runs out of range.
C6_DoneOrdered ==
  \A c \in Callers :
    /\ call[c].op = "Done" => call[c].err # "panic"
    /\ DoneOk(c) =>
         /\ Len(call[c].final) = i + 1
         /\ \A k \in 1..Len(call[c].final) :
              /\ (k - 1) \in DOMAIN tasks
              /\ call[c].final[k] = Work(tasks[k - 1].fn)
              /\ call[c].final[k] # NilSlot

\* a Done has returned two results that were recorded in the other order
C6_Witness ==
  \E c \in Callers :
    /\ DoneOk(c) /\ Len(call[c].final) >= 2
    /\ results[1].idx = 1 /\ results[2].idx = 0

\* C7: the vector of a successful Done has as many entries as Do calls returned
\* nil, and holds the result of each of them; the work function of a Do that
\* returned ErrStopped or a context error is never started.
C7_DoneCounts ==
  /\ \A k \in DOMAIN tasks :
       tasks[k].fn \in DOMAIN doRet /\ doRet[tasks[k].fn] = NoErr
  /\ \A c \in Callers : DoneOk(c) =>
       /\ Len(call[c].final) = Cardinality(DoNil)
       /\ \A f \in DoNil : \E k \in 1..Len(call[c].final) : call[c].final[k] = Work(f)

\* a Done has returned the result of the one accepted Do, and a Do that raced
\* with it (it began before the pool was stopped) was refused with ErrStopped
C7_Witness ==
  \E c, d \in Callers :
    /\ DoneOk(c) /\ Len(call[c].final) = 1
    /\ call[d].op = "Do" /\ call[d].pc = "done"
    /\ call[d].err = ErrStopped /\ ~call[d].afterStop

\* C8: a call of Do, Wait or Done that begins when a Done has stopped the pool
\* returns ErrStopped, a Do without its work function ever being started; and
\* stopped never goes back from 1 to 0.
C8_StoppedForGood ==
  /\ [](\A c \in Callers : call[c].afterStop =>
          /\ call[c].pc = "done" /\ call[c].err = ErrStopped
          /\ call[c].op = "Do" => \A k \in DOMAIN tasks : tasks[k].fn # call[c].fn)
  /\ [][stopped = 1 => stopped' = 1]_vars

\* a Do and a Wait or Done were refused by a stopped pool
C8_Witness ==
  /\ stopped = 1
  /\ \E c, d \in Callers :
       /\ call[c].afterStop /\ call[c].op = "Do" /\ call[c].err = ErrStopped
       /\ call[d].afterStop /\ call[d].op \in {"Wait", "Done"}
       /\ call[d].err = ErrStopped

\* C9: never more than size accepted tasks are short of having recorded their
\* result, every one of them holds a unit of the semaphore, and a Do that finds
\* all units taken waits.
C9_Bounded ==
  /\ Cardinality(InFlight) <= size
  /\ Cardinality({k \in DOMAIN tasks : tasks[k].st # "exited"}) <= sem.cur
  /\ sem.cur <= size

\* size >= 2 tasks are in flight and a Do waits for a unit
C9_Witness ==
  /\ size >= 2 /\ Cardinality(InFlight) = size
  /\ \E c \in Callers : call[c].op = "Do" /\ call[c].pc = "waiting"

\* C10: when Wait returns nil, every task accepted by a Do that had returned when
\* the Wait began has recorded its result; and stopped changes only in the first
\* step of a Done, never in a step of Wait.
C10_WaitCovers ==
  /\ [](\A c \in Callers : WaitOk(c) => \A k \in call[c].snap : Recorded(k))
  /\ [][stopped' # stopped =>
          \E c \in Callers : call[c].pc = "done" /\ call'[c].op = "Done"]_vars

\* a Wait has returned nil after a task completed, the pool is not stopped and
\* has accepted a further task since the Wait began
C10_Witness ==
  /\ stopped = 0
  /\ \E c \in Callers :
       /\ WaitOk(c) /\ call[c].snap # {}
       /\ \E k \in DOMAIN tasks : k \notin call[c].snap

\* C35: of two tasks the one with the lower index starts its function first:
\* no function has started while that of a task enqueued before it has not.
C35_StartOrder ==
  \A j, k \in DOMAIN tasks :
    (j < k /\ tasks[k].st # "spawned") => tasks[j].st # "spawned"

\* C36: with work functions that return and contexts that are never done,
\* under fair scheduling every call of Do, Wait and Done returns.
C36_Liveness ==
  \A c \in 1..MaxCallers : (call[c].pc # "done") ~> (call[c].pc = "done")

\* a Do that began before the pool was stopped was refused after it had got
\* its unit, and the Done has returned the results
C36_Witness ==
  \E c, d \in Callers :
    /\ call[c].op = "Do" /\ call[c].pc = "done"
    /\ call[c].err = ErrStopped /\ ~call[c].afterStop
    /\ call[d].op = "Done" /\ call[d].pc = "done" /\ call[d].err = NoErr

\* C37: when a Done has failed on its context the pool is stopped, and any
\* other Done is refused with ErrStopped and returns no results.
C37_StoppedAfterFailedDone ==
  \A c \in Callers :
    (call[c].op = "Done" /\ call[c].pc = "done" /\ call[c].err = CtxErr) =>
      /\ stopped = 1
      /\ \A d \in Callers \ {c} :
           call[d].op = "Done" =>
             call[d].pc = "done" /\ call[d].err = ErrStopped /\ call[d].final = <<>>

\* a Done failed on its context, a task has appended its result, and a later
\* Done of another caller was refused
C37_Witness ==
  \E c, d \in Callers :
    /\ call[c].op = "Done" /\ call[c].pc = "done" /\ call[c].err = CtxErr
    /\ call[d].op = "Done" /\ call[d].pc = "done" /\ call[d].err = ErrStopped
    /\ call[d].afterStop
    /\ \E k \in DOMAIN tasks : tasks[k].st \in {"appended", "exited"}

====
